---- MODULE Spec2Model ----
(***************************************************************************)
(* Model of the cnspec policy datalake (internal/datalakes/inmemory) and   *)
(* of the policy resolver.  Spec is the datalake under Assign, Unassign    *)
(* and MutatePolicy calls with cache writes that may be refused;           *)
(* SpecResolve is the resolver over a datalake whose policy graph changes;  *)
(* SpecScores is the scoring store under UpdateScores calls and SpecReport *)
(* the asset's resolved policy, its data and score slots and its report.   *)
(* SpecProps is SetProps on the stored policies, SpecBundle the policy     *)
(* bundle map (policy/bundle_map.go), SpecChecksums the four checksums of  *)
(* a policy as TestPolicyChecksums exercises them, and SpecScan the scan   *)
(* of an inventory (policy/scan/scan.go) whose context may be cancelled.   *)
(* SpecRefresh is the datalake with every cache write accepted and a fair  *)
(* refreshDependentAssetFilters loop; SpecConcurrentScores and             *)
(* SpecConcurrentMutate are two callers of UpdateScores and of             *)
(* MutatePolicy whose steps interleave at the cache reads and writes.      *)
(*                                                                         *)
(* The cache stores wrapPolicy values.  A wrapper holds a pointer to the   *)
(* policy object and two Go maps (parents, children); a wrapper read from  *)
(* the cache therefore aliases the stored one, and an assignment to        *)
(* policyw.children[..], childw.parents[..], group.Policies or             *)
(* policyObj.Filters changes the stored object at once, whether or not a   *)
(* later cache.Set is accepted.  Only the wrapper's own value fields       *)
(* (invalidated) need an accepted cache.Set to change.                     *)
(***************************************************************************)
EXTENDS Integers, Sequences, FiniteSets, TLC

\* ------------------------------------------------------------------ bounds
MaxDeltas   == 1          \* largest PolicyDeltas map of one direct MutatePolicy call
MaxAssign   == 2          \* longest PolicyMrns list of one Assign / Unassign
MaxCache    == 1          \* entries the resolved-policy cache holds before it evicts
MaxFilters  == 2          \* longest assetFilters list of one Resolve
MaxTime     == 2          \* latest time db.nowProvider gives
MaxScores   == 1          \* longest scores list of one UpdateScores call
MaxData     == 2          \* largest data map of one UpdateData call

\* --------------------------------------------------------------- universe
Assets       == {"as1"}
Policies     == {"A", "B", "C"}            \* policies of the ingested bundle
Unknown      == {"X"}                      \* an MRN no policy was stored under
Mrns         == Assets \cup Policies \cup Unknown
DeltaNames   == {"B", "C"} \cup Unknown     \* keys of the PolicyDeltas of a direct MutatePolicy call
FilterIds    == {"f1", "f2", "f3", "f9"}        \* CodeIDs of asset filters

\* filters declared on the groups of the bundle's policies (group.Filters)
GroupFilters == [m \in Mrns |-> CASE m = "A" -> {"f1"} [] m = "B" -> {"f2"} [] m = "C" -> {"f3"}
                                   [] OTHER -> {}]
\* number of groups of the bundle's policies
NumGroups    == [m \in Mrns |-> IF m \in Policies THEN 1 ELSE 0]
\* the policies MutatePolicy is called on directly and Assign / Unassign
\* can list; "C" is only ever a sub-policy
Targets      == {"A", "B"} \cup Unknown

ADD    == "ADD"
DELETE == "DELETE"
Actions == {ADD, DELETE, "MODIFY"}         \* "MODIFY" stands for any other action value

VARIABLES
  stored,       \* MRNs with an entry "policy/"+mrn in db.cache
  assets,       \* MRNs with an entry "asset/"+mrn in db.cache
  groups,       \* groups[m]: len(policy.Groups)
  group,        \* group[m]: MRNs of policy.Groups[0].Policies
  children,     \* children[m]: wrapPolicy.children
  parents,      \* parents[m]: wrapPolicy.parents
  filters,      \* filters[m]: keys of policy.Filters.Items
  lec,          \* lec[m]: policy.LocalExecutionChecksum
  gec,          \* gec[m]: policy.GraphExecutionChecksum
  invalidated,  \* invalidated[m]: wrapPolicy.invalidated as stored
  rcache,       \* db.resolvedPolicyCache: the set of stored resolved policies
  pc,           \* position of the running call: "idle", "refresh", "try", "sleep"
  cur,          \* the running call
  ret,          \* the call that returned last (during an UpdateScores call, the
                \* updateScore that returned last); NoCall while Resolve runs
  dirty,        \* a MutatePolicy call returned an error after it had changed the database
  assigned,     \* assigned[m]: policies added to m and not deleted since, by successful calls
  served,       \* the last Resolve that succeeded, if no mutation or eviction of its plan followed
  stale,        \* <<p, rp>>: rp was cached for p when a mutation changed p's policy graph
  assetw,       \* assetw[a]: ResolvedPolicy ({} for nil) and resolvedPolicyVersion of wrapAsset
  scores,       \* scores[q]: the entry "score/"+asset+"\x00"+q, {} when there is none
  data,         \* data[c]: the entry "data/"+asset+"\x00"+c, {} when there is none
  now,          \* the time db.nowProvider gives
  hist,         \* hist[q]: the UpdateScores calls on q since its slot was last initialised
  propsw,       \* propsw[m]: wrapPolicy.Props of the stored policy wrapper
  bundle,       \* a PolicyBundleMap: its Policies and Queries maps and its Library
  pol,          \* a policy object with its four memoized checksums, and its bundle
  scan,         \* a LocalService.RunIncognito call and its context
  conc          \* two calls that run concurrently: the position and the locals of each

dbvars == <<stored, assets, groups, group, children, parents, filters, lec, gec, invalidated>>
vars   == <<stored, assets, groups, group, children, parents, filters, lec, gec, invalidated,
            rcache, pc, cur, ret, dirty, assigned, served, stale,
            assetw, scores, data, now, hist, propsw, bundle, pol, scan, conc>>
\* the asset's resolved policy, data and scores
storevars == <<assetw, scores, data, now, hist>>
\* the policy properties, the bundle map, the checksummed policy, the scan
\* and the concurrent calls
extvars == <<propsw, bundle, pol, scan, conc>>

\* ------------------------------------------------------------- checksums
\* A checksum is modelled by the sequence of values folded into it, so two
\* checksums are equal exactly when the hashed inputs are.
EmptyLec == [mrn |-> "", policies |-> {}]
EmptyGec == [local |-> EmptyLec, deps |-> {}, filters |-> {}]

\* Policy.UpdateChecksums after InvalidateExecutionChecksums: the local
\* execution checksum covers the policy's MRN and its groups' policy refs
LocalExecutionChecksum(m, grp) == [mrn |-> m, policies |-> grp]

\* Policy.UpdateChecksums, graph part: the local execution checksum, the
\* (memoized) graph execution checksum of every dependency, and the filters
GraphExecutionChecksum(local, grp, flt, g) ==
  [local |-> local, deps |-> {g[d] : d \in grp}, filters |-> flt]

\* -------------------------------------------------------- asset filters
\* Policy.ComputeAssetFilters(recursive = false): the filters of the groups
ComputeAssetFilters(m) == IF groups[m] > 0 THEN GroupFilters[m] ELSE {}

\* Db.refreshAssetFilters: own group filters plus Filters.Items of every
\* dependent policy, as they are stored when the call runs
refreshAssetFilters(m, grp, flt) ==
  ComputeAssetFilters(m) \cup UNION {flt[d] : d \in grp}

\* ----------------------------------------------------------- the graph
RECURSIVE ReachFrom(_, _, _)
ReachFrom(rel, front, seen) ==
  IF front = {} THEN seen
  ELSE LET nxt == (UNION {rel[x] : x \in front}) \ seen
       IN ReachFrom(rel, nxt, seen \cup nxt)
\* policies reachable from m in one or more steps of rel
Reach(rel, m) == ReachFrom(rel, {m}, {})

NoCall  == [op |-> "none", err |-> ""]

\* ----------------------------------------------------- scores and data
\* the QrIds scores are kept under for asset as1: its own MRN (which
\* stands for "root"), a query of its resolved policy and a query of none
QrIds     == {"as1", "q1", "q2", "root"}
\* the datapoint checksums data is kept under
Checksums == {"d1", "d2"}

Result == "Result"
\* policy.Score{}: the zero value, ScoreType_Unknown
EmptyScore == [Type |-> "Unknown", Value |-> 0, ScoreCompletion |-> 0, DataCompletion |-> 0,
               DataTotal |-> 0, Weight |-> 0, Message |-> "",
               ValueModifiedTime |-> 0, FailureTime |-> 0]
\* no UpdateScores call yet
NoHist == [seq |-> "none", passing |-> TRUE, firstFail |-> 0]

\* explorer.Property: its Mrn, Uid and Mql
Property(mrn, uid, mql) == [Mrn |-> mrn, Uid |-> uid, Mql |-> mql]
\* a Library, the optional lookup of a bundle map: whether there is one, and
\* the policies and queries it knows
NoLibrary  == [present |-> FALSE, Policies |-> {}, Queries |-> {}]
TheLibrary == [present |-> TRUE, Policies |-> {"D"}, Queries |-> {"q2"}]
\* NewPolicyBundleMap: empty maps.  A map is a function on its keys; an entry
\* is {x} for a pointer to x and {} for a nil pointer
NewPolicyBundleMap(lib) == [Policies |-> <<>>, Queries |-> <<>>, Library |-> lib]

\* the fields of a policy that its checksums cover
DocFields  == {"Authors", "Tags", "Name", "Version", "Created"}
ExecFields == {"Mrn", "CodeId", "Scoring"}
\* the fields of a policy that are hashed
FieldsOf(p) == [f \in DocFields \cup ExecFields |-> p[f]]

\* a policy as it is built: no checksum is computed
NewPolicyObject(mrn) ==
  [Mrn |-> mrn, Name |-> mrn, Version |-> "", Authors |-> "", Tags |-> "", Created |-> "0",
   CodeId |-> "c1", Scoring |-> "",
   LocalContentChecksum |-> {}, LocalExecutionChecksum |-> {},
   GraphContentChecksum |-> {}, GraphExecutionChecksum |-> {},
   at |-> [f \in DocFields \cup ExecFields |-> ""], last |-> {}, changes |-> 0]
InitPol == NewPolicyObject("mrn1")
\* the scan before RunIncognito is called
InitScan == [pc |-> "idle", n |-> 0, i |-> 0, cancelled |-> FALSE, cancelledAt |-> "",
             reports |-> <<>>, errors |-> <<>>, conns |-> 0, c |-> 0, closed |-> <<>>,
             outcome |-> "", started |-> 0, finished |-> 0, result |-> {}]
\* the two callers before they call; before is the entry the first of the
\* two calls found, <<>> while none has called
Procs    == {1, 2}
IdleProc == [pc |-> "idle", op |-> "none"]
InitConc == [call |-> [p \in Procs |-> IdleProc], before |-> <<>>]
\* the properties the stored policies start with
InitProps == [m \in Mrns |->
                CASE m = "A" -> <<Property("p1", "", "m0"), Property("", "u1", "m0")>>
                  [] OTHER   -> <<>>]

\* the datalake, the resolver and the stores after construction
InitDb ==
  /\ stored      = Policies
  /\ assets      = {}
  /\ groups      = NumGroups
  /\ group       = [m \in Mrns |-> {}]
  /\ children    = [m \in Mrns |-> {}]
  /\ parents     = [m \in Mrns |-> {}]
  /\ filters     = [m \in Mrns |-> IF m \in Policies THEN GroupFilters[m] ELSE {}]
  /\ lec         = [m \in Mrns |-> IF m \in Policies THEN LocalExecutionChecksum(m, {}) ELSE EmptyLec]
  /\ gec         = [m \in Mrns |-> IF m \in Policies
                                     THEN GraphExecutionChecksum(LocalExecutionChecksum(m, {}), {}, GroupFilters[m], <<>>)
                                     ELSE EmptyGec]
  /\ invalidated = [m \in Mrns |-> FALSE]
  /\ conc        = InitConc
  /\ rcache      = {}
  /\ pc          = "idle"
  /\ cur         = NoCall
  /\ ret         = NoCall
  /\ dirty       = FALSE
  /\ assigned    = [m \in Mrns |-> {}]
  /\ served      = {}
  /\ stale       = {}
  /\ assetw      = [a \in Assets |-> [ResolvedPolicy |-> {}, resolvedPolicyVersion |-> ""]]
  /\ scores      = [q \in QrIds |-> {}]
  /\ data        = [c \in Checksums |-> {}]
  /\ now         = 1
  /\ hist        = [q \in QrIds |-> NoHist]
  /\ propsw      = InitProps
  /\ pol         = InitPol
  /\ scan        = InitScan

Init ==
  /\ InitDb
  /\ bundle      = NewPolicyBundleMap(NoLibrary)

\* ------------------------------------------------------------ cache.Set
\* A cache write may be refused (size-weighted admission).  One call input
\* names the write of the call that is refused, <<"none", "">> for none.
NoRefuse == <<"none", "">>

\* ---------------------------------------------------------- MutatePolicy
\* The loop over mutation.PolicyDeltas works on s: s.pol is the local map
\* `policies`, s.ch / s.pa are the children / parents maps of the wrappers,
\* s.sites the cache writes attempted so far.

\* mutant of AddDelta: the check for a policy that is already present is gone
AddDelta_NoPresenceCheck(T, k, st, refuse, s) ==
  IF k \notin st THEN [s EXCEPT !.err = "no_child"]
  ELSE LET s1 == [s EXCEPT !.pol = @ \cup {k},
                           !.ch  = [@ EXCEPT ![T] = @ \cup {k}],
                           !.pa  = [@ EXCEPT ![k] = @ \cup {T}],
                           !.sites = @ \cup {<<"child", k>>}]
       IN IF refuse = <<"child", k>>
          THEN [s1 EXCEPT !.err = "child_write"]
          ELSE [s1 EXCEPT !.changed = TRUE]

\* case policy.PolicyDelta_ADD
AddDelta(T, k, st, refuse, s) ==
  IF k \in s.pol THEN s
  ELSE IF k \notin st THEN [s EXCEPT !.err = "no_child"]
  ELSE LET s1 == [s EXCEPT !.pol = @ \cup {k},
                           !.ch  = [@ EXCEPT ![T] = @ \cup {k}],
                           !.pa  = [@ EXCEPT ![k] = @ \cup {T}],
                           !.sites = @ \cup {<<"child", k>>}]
       IN IF refuse = <<"child", k>>
          THEN [s1 EXCEPT !.err = "child_write"]
          ELSE [s1 EXCEPT !.changed = TRUE]

\* mutant of DeleteDelta: the target stays in the child's parents
DeleteDelta_KeepsParent(T, k, st, refuse, s) ==
  IF k \notin st THEN [s EXCEPT !.err = "no_child"]
  ELSE LET s1 == [s EXCEPT !.pol = @ \ {k},
                           !.ch  = [@ EXCEPT ![T] = @ \ {k}],
                           !.sites = @ \cup {<<"child", k>>}]
       IN IF refuse = <<"child", k>>
          THEN [s1 EXCEPT !.err = "child_write"]
          ELSE [s1 EXCEPT !.changed = TRUE]

\* mutant of DeleteDelta: the child stays in the target's children
DeleteDelta_KeepsChild(T, k, st, refuse, s) ==
  IF k \notin st THEN [s EXCEPT !.err = "no_child"]
  ELSE LET s1 == [s EXCEPT !.pol = @ \ {k},
                           !.pa  = [@ EXCEPT ![k] = @ \ {T}],
                           !.sites = @ \cup {<<"child", k>>}]
       IN IF refuse = <<"child", k>>
          THEN [s1 EXCEPT !.err = "child_write"]
          ELSE [s1 EXCEPT !.changed = TRUE]

\* case policy.PolicyDelta_DELETE
DeleteDelta(T, k, st, refuse, s) ==
  IF k \notin st THEN [s EXCEPT !.err = "no_child"]
  ELSE LET s1 == [s EXCEPT !.pol = @ \ {k},
                           !.ch  = [@ EXCEPT ![T] = @ \ {k}],
                           !.pa  = [@ EXCEPT ![k] = @ \ {T}],
                           !.sites = @ \cup {<<"child", k>>}]
       IN IF refuse = <<"child", k>>
          THEN [s1 EXCEPT !.err = "child_write"]
          ELSE [s1 EXCEPT !.changed = TRUE]

\* mutant of ApplyDelta: a delta with an unknown action is skipped
ApplyDelta_SkipsUnknown(T, k, act, st, refuse, s) ==
  CASE act = ADD    -> AddDelta(T, k, st, refuse, s)
    [] act = DELETE -> DeleteDelta(T, k, st, refuse, s)
    [] OTHER        -> s

\* one iteration of the loop over mutation.PolicyDeltas: switch delta.Action
ApplyDelta(T, k, act, st, refuse, s) ==
  CASE act = ADD    -> AddDelta(T, k, st, refuse, s)
    [] act = DELETE -> DeleteDelta(T, k, st, refuse, s)
    [] OTHER        -> [s EXCEPT !.err = "InvalidArgument"]

\* the loop over mutation.PolicyDeltas, in the order ord the map is ranged
\* over; the first error returns from MutatePolicy
RECURSIVE ApplyDeltas(_, _, _, _, _, _, _)
ApplyDeltas(T, deltas, ord, i, st, refuse, s) ==
  IF i > Len(ord) \/ s.err # "" THEN s
  ELSE ApplyDeltas(T, deltas, ord, i + 1, st, refuse,
                   ApplyDelta(T, ord[i], deltas[ord[i]], st, refuse, s))

\* Db.checkAndInvalidatePolicyBundle: marks the wrapper invalidated
checkAndInvalidatePolicyBundle(inv, m) == [inv EXCEPT ![m] = TRUE]

\* Db.ensureAsset: stores the asset and its asset policy, which has one
\* empty group
ensureAsset(T) ==
  LET l == LocalExecutionChecksum(T, {})
  IN [stored |-> stored \cup {T},
      assets |-> assets \cup {T},
      groups |-> [groups EXCEPT ![T] = 1],
      lec    |-> [lec EXCEPT ![T] = l],
      gec    |-> [gec EXCEPT ![T] = GraphExecutionChecksum(l, {}, {}, gec)]]

\* the database after db.ensurePolicy(targetMRN, createIfMissing = true)
\* found or created the target
ensurePolicy(T) ==
  IF T \in stored
  THEN [stored |-> stored, assets |-> assets, groups |-> groups, lec |-> lec, gec |-> gec]
  ELSE ensureAsset(T)

\* what is recorded of a call of MutatePolicy: how it returned (status,
\* code, err), whether a cache write was accepted (wrote) or refused
\* (refused), and what its deltas were against the target's sub-policies
\* when it was called
CallRec(op, T, deltas) ==
  LET members == IF T \in stored THEN group[T] ELSE {}
  IN [op |-> op, target |-> T,
      adds |-> {k \in DOMAIN deltas : deltas[k] = ADD},
      dels |-> {k \in DOMAIN deltas : deltas[k] = DELETE},
      others  |-> \E k \in DOMAIN deltas : deltas[k] \notin {ADD, DELETE},
      present |-> \A k \in DOMAIN deltas : deltas[k] = ADD /\ k \in members,
      same    |-> \A k \in DOMAIN deltas : \/ deltas[k] = ADD /\ k \in members
                                           \/ deltas[k] = DELETE /\ k \notin members,
      known   |-> \A k \in DOMAIN deltas : deltas[k] \in {ADD, DELETE} => k \in stored,
      found   |-> T \in stored,
      specs   |-> (T \in stored => groups[T] > 0),
      status |-> "ok", code |-> "", err |-> "", wrote |-> FALSE, refused |-> FALSE,
      handled |-> {}, again |-> {}]

\* the call r returned the error err after it attempted the writes in sites,
\* of which refuse was refused
Failed(r, err, sites, refuse) ==
  [r EXCEPT !.status = "error",
            !.code = IF err \in {"InvalidArgument", "no_mrn"} THEN "InvalidArgument" ELSE "Unknown",
            !.err = err, !.wrote = (sites \ {refuse} # {}), !.refused = (refuse \in sites)]

\* Db.MutatePolicy up to the call of refreshDependentAssetFilters.  The
\* result is the database it leaves and either the returned call (needs = {})
\* or the parents that refreshDependentAssetFilters starts from.
MutateOutcome(op, T, deltas, create, ord, refuse) ==
  LET r  == CallRec(op, T, deltas)
      db == [stored |-> stored, assets |-> assets, groups |-> groups, group |-> group,
             children |-> children, parents |-> parents, filters |-> filters,
             lec |-> lec, gec |-> gec, invalidated |-> invalidated,
             ret |-> r, needs |-> {}, sites |-> {}]
  IN
  IF T \notin stored /\ ~create
    THEN [db EXCEPT !.ret = Failed(r, "no_policy", {}, refuse)]
  ELSE IF T \notin stored /\ refuse = <<"create", T>>
    THEN [db EXCEPT !.ret = Failed(r, "create_write", {refuse}, refuse), !.sites = {refuse}]
  ELSE
  LET e   == ensurePolicy(T)
      w0  == IF T \in stored THEN {} ELSE {<<"create", T>>}
      db0 == [db EXCEPT !.stored = e.stored, !.assets = e.assets, !.groups = e.groups,
                        !.lec = e.lec, !.gec = e.gec, !.sites = w0,
                        !.ret = [r EXCEPT !.wrote = (w0 # {})]]
  IN
  IF e.groups[T] = 0
    THEN [db0 EXCEPT !.ret = Failed(r, "no_specs", w0, refuse)]
  ELSE
  LET s == ApplyDeltas(T, deltas, ord, 1, e.stored, refuse,
                       [pol |-> group[T], ch |-> children, pa |-> parents,
                        changed |-> FALSE, err |-> "", sites |-> w0])
      db1 == [db0 EXCEPT !.children = s.ch, !.parents = s.pa, !.sites = s.sites]
  IN
  IF s.err # ""
    THEN [db1 EXCEPT !.ret = Failed(r, s.err, s.sites, refuse)]
  ELSE IF ~s.changed
    THEN db1
  ELSE
  LET grp == [group EXCEPT ![T] = s.pol]
      flt == [filters EXCEPT ![T] = refreshAssetFilters(T, s.pol, filters)]
      w2  == s.sites \cup {<<"filters", T>>}
      db2 == [db1 EXCEPT !.group = grp, !.filters = flt, !.sites = w2]
  IN
  IF refuse = <<"filters", T>>
    THEN [db2 EXCEPT !.ret = Failed(r, "filters_write", w2, refuse)]
  ELSE
  LET l   == LocalExecutionChecksum(T, s.pol)
      w3  == w2 \cup {<<"target", T>>}
      db3 == [db2 EXCEPT !.lec = [e.lec EXCEPT ![T] = l],
                         !.gec = [e.gec EXCEPT ![T] = GraphExecutionChecksum(l, s.pol, flt[T], e.gec)],
                         !.sites = w3]
  IN
  IF refuse = <<"target", T>>
    THEN [db3 EXCEPT !.ret = Failed(r, "target_write", w3, refuse)]
  ELSE
  LET w4 == w3 \cup {<<"bundle", T>>}
  IN
  IF refuse = <<"bundle", T>>
    THEN [db3 EXCEPT !.ret = Failed(r, "bundle_write", w4, refuse), !.sites = w4]
  ELSE [db3 EXCEPT !.invalidated = checkAndInvalidatePolicyBundle(invalidated, T),
                   !.ret = [r EXCEPT !.wrote = TRUE],
                   !.needs = s.pa[T], !.sites = w4]

\* the policies a successful call leaves assigned to its target
Assigned(r) == [assigned EXCEPT ![r.target] = (@ \cup r.adds) \ r.dels]

\* what stays recorded of a call once it has returned
Summary(r) ==
  [op |-> r.op, target |-> r.target, specs |-> r.specs, others |-> r.others, present |-> r.present, same |-> r.same,
   known |-> r.known, found |-> r.found, status |-> r.status, code |-> r.code,
   err |-> r.err, wrote |-> r.wrote, refused |-> r.refused,
   handled |-> r.handled, again |-> r.again]

\* return of a MutatePolicy call; partial tells that a call that failed
\* left changes behind
Return(r, partial) ==
  /\ pc'  = "idle"
  /\ cur' = NoCall
  /\ ret' = Summary(r)
  /\ dirty' = (r.status # "ok" /\ partial)
  /\ assigned' = IF r.status = "ok" THEN Assigned(r) ELSE assigned

\* the ADD of a policy to a target it depends on would close a cycle
Acyclic(T, deltas) ==
  \A k \in DOMAIN deltas : deltas[k] = ADD => k # T /\ T \notin Reach(children, k)

\* the plans cached for the target and its ancestors become stale when the
\* call changes the target's sub-policies
StaleAfter(o) ==
  LET affected == {o.ret.target} \cup Reach(parents, o.ret.target)
  IN IF o.group = group THEN stale
     ELSE {x \in stale : x[1] \notin affected}
          \cup {x \in affected \X rcache : x[2].GraphExecutionChecksum = gec[x[1]]}

Effect(o) ==
  /\ served' = {}
  /\ stale' = StaleAfter(o)
  /\ stored' = o.stored /\ assets' = o.assets /\ groups' = o.groups
  /\ group' = o.group /\ children' = o.children /\ parents' = o.parents
  /\ filters' = o.filters /\ lec' = o.lec /\ gec' = o.gec
  /\ invalidated' = o.invalidated
  /\ IF o.needs = {}
     THEN Return(o.ret, dbvars' # dbvars)
     ELSE /\ pc' = "refresh"
          /\ cur' = [r |-> o.ret, needsUpdate |-> o.needs]
          /\ UNCHANGED <<ret, dirty, assigned>>
  /\ UNCHANGED <<rcache, storevars, extvars>>

\* one call of Db.MutatePolicy; the refused write is one of the writes the
\* call attempts
Mutate(op, T, deltas, create, ord, refusable) ==
  /\ Acyclic(T, deltas)
  /\ \E o \in {MutateOutcome(op, T, deltas, create, ord, NoRefuse)} :
       \/ Effect(o)
       \/ \E refuse \in {x \in o.sites : refusable} :
            \E o2 \in {MutateOutcome(op, T, deltas, create, ord, refuse)} : Effect(o2)

\* the orders in which a Go map with key set S can be ranged over
Orders(S) == {o \in [1..Cardinality(S) -> S] : \A i, j \in 1..Cardinality(S) : o[i] = o[j] => i = j}

DeltaMaps == UNION {[S -> Actions] : S \in {S \in SUBSET DeltaNames : Cardinality(S) <= MaxDeltas}}

\* Db.MutatePolicy called on a policy of the bundle
MutatePolicy ==
  /\ pc = "idle"
  /\ ~dirty
  /\ \E T \in Targets, deltas \in DeltaMaps :
       \E ord \in Orders(DOMAIN deltas) :
         Mutate("MutatePolicy", T, deltas, FALSE, ord, TRUE)

\* the PolicyMrns lists given to Assign and Unassign
AssignLists == {S \in SUBSET Targets : Cardinality(S) <= MaxAssign}

\* LocalServices.Assign: every listed policy becomes an ADD delta on the
\* asset's policy, which is created when missing
Assign ==
  /\ pc = "idle"
  /\ ~dirty
  /\ \E a \in Assets, S \in AssignLists :
       IF S = {}
       THEN /\ ret' = Summary(Failed(CallRec("Assign", a, <<>>), "no_mrn", {}, NoRefuse))
            /\ UNCHANGED <<dbvars, rcache, pc, cur, dirty, assigned, served, stale, storevars, extvars>>
       ELSE \E ord \in Orders(S) : Mutate("Assign", a, [k \in S |-> ADD], TRUE, ord, TRUE)

\* LocalServices.Unassign: every listed policy becomes a DELETE delta
Unassign ==
  /\ pc = "idle"
  /\ ~dirty
  /\ \E a \in Assets, S \in AssignLists :
       IF S = {}
       THEN /\ ret' = Summary(Failed(CallRec("Unassign", a, <<>>), "no_mrn", {}, NoRefuse))
            /\ UNCHANGED <<dbvars, rcache, pc, cur, dirty, assigned, served, stale, storevars, extvars>>
       ELSE \E ord \in Orders(S) : Mutate("Unassign", a, [k \in S |-> DELETE], TRUE, ord, TRUE)

\* --------------------------------------------- refreshDependentAssetFilters
\* mutant of NextNeedsUpdate: the parents of the ancestor are not queued
NextNeedsUpdate_DirectOnly(needsUpdate, k) == needsUpdate \ {k}

\* mutant of NextNeedsUpdate: the handled ancestor stays pending
NextNeedsUpdate_KeepsHandled(needsUpdate, k) == needsUpdate \cup parents[k]

\* the pending set after ancestor k was handled: its parents are added,
\* then k is deleted
NextNeedsUpdate(needsUpdate, k) == (needsUpdate \cup parents[k]) \ {k}

\* one iteration of the loop over needsUpdate, for the pending ancestor k;
\* the call records the ancestors it handled and those it handled again
Refresh(refusable) ==
  /\ pc = "refresh"
  /\ \E k \in cur.needsUpdate :
     \E refuse \in {NoRefuse} \cup {x \in {<<"filters", k>>, <<"ancestor", k>>, <<"bundle", k>>} : refusable} :
       LET flt == [filters EXCEPT ![k] = refreshAssetFilters(k, group[k], filters)]
           g   == [gec EXCEPT ![k] = GraphExecutionChecksum(lec[k], group[k], flt[k], gec)]
           r   == [cur.r EXCEPT !.handled = @ \cup {k},
                                !.again = IF k \in cur.r.handled THEN @ \cup {k} ELSE @]
           nxt == NextNeedsUpdate(cur.needsUpdate, k)
       IN
       /\ filters' = flt
       /\ IF refuse = <<"filters", k>>
          THEN /\ Return(Failed(r, "filters_write", {<<"target", r.target>>, refuse}, refuse), TRUE)
               /\ UNCHANGED <<gec, invalidated>>
          ELSE /\ gec' = g
               /\ IF refuse = <<"bundle", k>>
                  THEN /\ Return(Failed(r, "bundle_write", {<<"target", r.target>>, refuse}, refuse), TRUE)
                       /\ UNCHANGED invalidated
                  ELSE LET r2 == [r EXCEPT !.refused = (@ \/ refuse = <<"ancestor", k>>)]
                       IN /\ invalidated' = checkAndInvalidatePolicyBundle(invalidated, k)
                          /\ IF nxt = {}
                             THEN Return(r2, TRUE)
                             ELSE /\ pc' = "refresh"
                                  /\ cur' = [r |-> r2, needsUpdate |-> nxt]
                                  /\ UNCHANGED <<ret, dirty, assigned>>
  /\ UNCHANGED <<stored, assets, groups, group, children, parents, lec, rcache, served, stale, storevars, extvars>>

RefreshStep == Refresh(TRUE)

Next == MutatePolicy \/ Assign \/ Unassign \/ RefreshStep

Spec == Init /\ [][Next]_vars

\* ------------------------------------------------------------- resolver
maxResolveRetry == 3

\* the policies Resolve is called on and the asset filter lists it is given
ResolveTargets == {"A"} \cup Unknown
FilterLists    == {F \in SUBSET {"f1", "f2", "f9"} : Cardinality(F) <= MaxFilters}

\* the identifiers of the model in the order sort.Strings puts them
CodeIdOrder == <<"A", "B", "C", "f1", "f2", "f3", "f9">>
SortStrings(S) == SelectSeq(CodeIdOrder, LAMBDA x : x \in S)

\* ChecksumAssetFilters: the hash of the sorted CodeIDs of the filters
ChecksumAssetFilters(F) == SortStrings(F)

\* MatchingAssetFilters: the given filters whose CodeID is in policy.Filters
MatchingAssetFilters(p, F) == F \cap filters[p]

\* policyToJobs and jobsToQueries: every policy of the bundle has one query,
\* named like the policy; the queries of the plan are those of the policies
\* in the graph of p with a group filter among the matching filters
jobsToQueries(p, mf) ==
  {m \in ({p} \cup Reach(group, p)) \cap Policies : GroupFilters[m] \cap mf # {}}

\* refreshChecksums, execution job: "v2", then the checksums of the queries
\* in the order of their sorted keys
refreshChecksums(queries) == <<"v2">> \o SortStrings(queries)

\* checksumStrings: the hash of the strings, in their order
checksumStrings(strings) == strings

\* mutant of relativeChecksum: the filters checksum is left out
relativeChecksum_WithoutFilters(g, fchk, str) == checksumStrings(<<g, "v2", str>>)

\* resolverCache.relativeChecksum(str) with useV2Code, for the cache of a
\* resolve with graph execution checksum g and filters checksum fchk
relativeChecksum(g, fchk, str) == checksumStrings(<<g, fchk, "v2", str>>)

\* tryResolve, the root reporting job as it is built before phase 3
RootReportingJob(g, fchk) ==
  [Uuid |-> relativeChecksum(g, fchk, g), QrId |-> "root", Spec |-> <<>>, Datapoints |-> {}]

NoRP == [GraphExecutionChecksum |-> EmptyGec, Filters |-> {}, FiltersChecksum |-> <<>>,
         ExecutionJob |-> <<>>, CollectorJob |-> [ReportingJobs |-> <<>>],
         ReportingJobUuid |-> <<>>]

\* the ResolvedPolicy tryResolve builds for the matching filters mf: its
\* two identity checksums, the filters, the checksum of its execution job,
\* the root reporting job in the collector job, kept under its Uuid, and
\* that Uuid
ResolvedPolicy(p, mf) ==
  LET root == RootReportingJob(gec[p], ChecksumAssetFilters(mf))
  IN [GraphExecutionChecksum |-> gec[p],
      Filters                |-> mf,
      FiltersChecksum        |-> ChecksumAssetFilters(mf),
      ExecutionJob           |-> refreshChecksums(jobsToQueries(p, mf)),
      CollectorJob           |-> [ReportingJobs |-> [u \in {root.Uuid} |-> root]],
      ReportingJobUuid       |-> root.Uuid]

\* mutant of CachedResolvedPolicy: the key leaves out the graph checksum
CachedResolvedPolicy_ByFilters(p, chk) ==
  {rp \in rcache : rp.FiltersChecksum = chk}

\* Db.CachedResolvedPolicy: the entry under the key made of the policy's
\* graph execution checksum and the filters checksum, if there is one
CachedResolvedPolicy(p, chk) ==
  {rp \in rcache : rp.GraphExecutionChecksum = gec[p] /\ rp.FiltersChecksum = chk}

\* mutant of SecondLookup: the cache is not asked again
SecondLookup_Skipped(p, all, fchk) == {}

\* tryResolve, the look-up with the checksum of the matching filters, made
\* when it differs from the checksum of all filters
SecondLookup(p, all, fchk) ==
  IF fchk # all THEN CachedResolvedPolicy(p, fchk) ELSE {}

\* Db.SetResolvedPolicy(cached = false), accepted by the cache: the entry is
\* stored under its key; a full cache drops its entry victim
SetResolvedPolicy(rc, rp, victim) ==
  LET others == {x \in rc : ~(x.GraphExecutionChecksum = rp.GraphExecutionChecksum
                              /\ x.FiltersChecksum = rp.FiltersChecksum)}
  IN IF Cardinality(others) >= MaxCache THEN (others \ {victim}) \cup {rp}
     ELSE others \cup {rp}

\* one attempt.  phases is how policyToJobs / jobsToQueries end ("ok", the
\* retry signal or another error), accepted whether the cache takes the new
\* entry.  out is "ok" or the error returned.
tryResolve(p, F, phases, accepted, victim) ==
  LET all  == ChecksumAssetFilters(F)
      none == [out |-> "", rp |-> NoRP, hit |-> FALSE, built |-> FALSE, rcache |-> rcache]
  IN
  IF p \notin stored THEN [none EXCEPT !.out = "no_policy"]
  ELSE IF CachedResolvedPolicy(p, all) # {}
    THEN [none EXCEPT !.out = "ok", !.hit = TRUE,
                      !.rp = CHOOSE x \in CachedResolvedPolicy(p, all) : TRUE]
  ELSE
  LET mf   == MatchingAssetFilters(p, F)
      fchk == ChecksumAssetFilters(mf)
  IN
  IF mf = {} THEN [none EXCEPT !.out = "no_match"]
  ELSE IF SecondLookup(p, all, fchk) # {}
    THEN [none EXCEPT !.out = "ok", !.hit = TRUE,
                      !.rp = CHOOSE x \in SecondLookup(p, all, fchk) : TRUE]
  ELSE IF phases # "ok" THEN [none EXCEPT !.out = phases]
  ELSE IF ~accepted THEN [none EXCEPT !.out = "set_refused", !.built = TRUE]
  ELSE [none EXCEPT !.out = "ok", !.built = TRUE, !.rp = ResolvedPolicy(p, mf),
                    !.rcache = SetResolvedPolicy(rcache, ResolvedPolicy(p, mf), victim)]

NoDetail == [code |-> "", reason |-> "", metadata |-> {}, policyFilter |-> {}, filters |-> {}]

\* newPolicyAssetMatchError: with no asset filters a status with the
\* ErrorInfo detail (reason, metadata: the policy's MRN); otherwise a plain
\* status whose message lists the policy's filters and the asset's filters
newPolicyAssetMatchError(F, p) ==
  IF F = {}
  THEN [code |-> "InvalidArgument", reason |-> "no-matching-policy", metadata |-> {<<"policy", p>>},
        policyFilter |-> {}, filters |-> {}]
  ELSE [code |-> "InvalidArgument", reason |-> "", metadata |-> {},
        policyFilter |-> filters[p], filters |-> F]

\* mutant of resolve: the retry signal of the last attempt is returned
resolve_LeaksRetry(i, out) ==
  IF out = "ok" THEN [next |-> "return", status |-> "ok", err |-> ""]
  ELSE IF out # "retry" THEN [next |-> "return", status |-> "error", err |-> out]
  ELSE IF i + 1 < maxResolveRetry THEN [next |-> "sleep", status |-> "", err |-> ""]
  ELSE [next |-> "return", status |-> "error", err |-> "retry"]

\* LocalServices.resolve, the body of the loop for attempt i (from 0) that
\* ended with out
resolve(i, out) ==
  IF out = "ok" THEN [next |-> "return", status |-> "ok", err |-> ""]
  ELSE IF out # "retry" THEN [next |-> "return", status |-> "error", err |-> out]
  ELSE IF i + 1 < maxResolveRetry THEN [next |-> "sleep", status |-> "", err |-> ""]
  ELSE [next |-> "return", status |-> "error", err |-> "concurrent policy resolve"]

\* the last successful Resolve, if it had these arguments and neither a
\* mutation nor the eviction of its plan came after it
Served(p, F) == {x \in served : x.p = p /\ x.F = F}

\* LocalServices.Resolve is called
Resolve ==
  /\ pc = "idle"
  /\ ~dirty
  /\ \E p \in ResolveTargets, F \in FilterLists :
       cur' = [op |-> "Resolve", target |-> p, F |-> F, i |-> 0, sleeps |-> 0, retries |-> 0]
  /\ pc' = "try"
  /\ ret' = NoCall
  /\ UNCHANGED <<dbvars, rcache, dirty, assigned, served, stale, storevars, extvars>>

\* one iteration of the loop of resolve: the attempt and what follows it
Attempt ==
  /\ pc = "try"
  /\ \E phases \in {"ok", "retry", "internal"}, accepted \in BOOLEAN, victim \in (IF rcache = {} THEN {NoRP} ELSE rcache) :
       \E a \in {tryResolve(cur.target, cur.F, phases, accepted, victim)} :
         LET st == resolve(cur.i, a.out)
         IN
         /\ rcache' = a.rcache
         /\ IF st.next = "sleep"
            THEN /\ pc' = "sleep"
                 /\ cur' = [cur EXCEPT !.retries = @ + 1]
                 /\ UNCHANGED <<ret, served>>
            ELSE /\ pc' = "idle"
                 /\ cur' = NoCall
                 /\ ret' = [op |-> "Resolve", status |-> st.status, err |-> st.err,
                            out |-> a.out,
                            detail |-> IF a.out = "no_match"
                                       THEN newPolicyAssetMatchError(cur.F, cur.target)
                                       ELSE NoDetail,
                            hit |-> a.hit, built |-> a.built, rp |-> a.rp,
                            afterChange |-> (\E x \in stale : x[1] = cur.target),
                            again |-> Served(cur.target, cur.F) # {},
                            superset |-> (a.rp.Filters # cur.F)]
                 /\ served' = {x \in served : x.rp \in a.rcache}
                              \cup (IF st.status = "ok"
                                    THEN {[p |-> cur.target, F |-> cur.F, rp |-> a.rp]}
                                    ELSE {})
  /\ stale' = {x \in stale : x[2] \in rcache'}
  /\ UNCHANGED <<dbvars, dirty, assigned, storevars, extvars>>

\* the back-off between two attempts
Sleep ==
  /\ pc = "sleep"
  /\ pc' = "try"
  /\ cur' = [cur EXCEPT !.i = @ + 1, !.sleeps = @ + 1]
  /\ UNCHANGED <<dbvars, rcache, ret, dirty, assigned, served, stale, storevars, extvars>>

\* the resolved-policy cache drops an entry
Evict ==
  /\ pc = "idle"
  /\ \E rp \in rcache :
       /\ rcache' = rcache \ {rp}
       /\ served' = {x \in served : x.rp # rp}
       /\ stale' = {x \in stale : x[2] # rp}
  /\ UNCHANGED <<dbvars, pc, cur, ret, dirty, assigned, storevars, extvars>>

\* the calls that change the policy graph under the resolver: B becomes or
\* ceases to be a sub-policy of A, C of B
GraphCalls ==
  {[op |-> "MutatePolicy", target |-> "A", k |-> "B", act |-> act, create |-> FALSE] : act \in {ADD, DELETE}}
  \cup {[op |-> "MutatePolicy", target |-> "B", k |-> "C", act |-> act, create |-> FALSE] : act \in {ADD, DELETE}}

\* a MutatePolicy call during which the cache refuses no write
Mutation ==
  /\ pc = "idle"
  /\ ~dirty
  /\ \E c \in GraphCalls :
       Mutate(c.op, c.target, [k \in {c.k} |-> c.act], c.create, <<c.k>>, FALSE)

\* its propagation to the ancestors
Propagation == Refresh(FALSE)

NextResolve == Mutation \/ Propagation \/ Resolve \/ Attempt \/ Sleep \/ Evict

SpecResolve == Init /\ [][NextResolve]_vars

\* -------------------------------------------------------- scoring store
\* the scores UpdateScores is called with, all for the QrId q1: Results of
\* every Value and ScoreCompletion of a small grid, two scores of Type
\* Error, and a passing Result with one of DataCompletion, DataTotal, Weight
\* and Message changed
NewScore(ty, v, sc) ==
  [Type |-> ty, Value |-> v, ScoreCompletion |-> sc, DataCompletion |-> 100,
   DataTotal |-> 1, Weight |-> 1, Message |-> "",
   ValueModifiedTime |-> 0, FailureTime |-> 0]
ScoreGrid ==
  {NewScore(Result, v, sc) : v \in {0, 50, 100}, sc \in {0, 50, 100}}
  \cup {NewScore("Error", 0, sc) : sc \in {0, 100}}
PassingScore == NewScore(Result, 100, 100)
ScoreInputs ==
  ScoreGrid \cup {[PassingScore EXCEPT !.DataCompletion = 0], [PassingScore EXCEPT !.DataTotal = 0],
                  [PassingScore EXCEPT !.Weight = 0], [PassingScore EXCEPT !.Message = "m"]}
ScoredQrId == "q1"

\* mutant of SameScore: the Message is compared as well
SameScore_WithMessage(org, score) ==
  /\ org.Value = score.Value
  /\ org.Type = score.Type
  /\ org.DataCompletion = score.DataCompletion
  /\ org.DataTotal = score.DataTotal
  /\ org.ScoreCompletion = score.ScoreCompletion
  /\ org.Weight = score.Weight
  /\ org.Message = score.Message

\* updateScore, the comparison with the stored score
SameScore(org, score) ==
  /\ org.Value = score.Value
  /\ org.Type = score.Type
  /\ org.DataCompletion = score.DataCompletion
  /\ org.DataTotal = score.DataTotal
  /\ org.ScoreCompletion = score.ScoreCompletion
  /\ org.Weight = score.Weight

\* mutant of Timestamps: a score is first saved only when none is stored
Timestamps_FirstOnlyIfMissing(missing, org, score, t) ==
  IF missing
  THEN [ValueModifiedTime |-> t,
        FailureTime |-> IF score.Value = 100 \/ score.ScoreCompletion < 100 THEN 0 ELSE t]
  ELSE IF (org.Value # score.Value \/ org.ScoreCompletion = 0) /\ score.Type = Result
  THEN [ValueModifiedTime |-> t,
        FailureTime |-> IF org.Value = 100 THEN t ELSE org.FailureTime]
  ELSE [ValueModifiedTime |-> org.ValueModifiedTime, FailureTime |-> org.FailureTime]

\* mutant of Timestamps: a changed value always starts a new failure time
Timestamps_AlwaysNewFailure(missing, org, score, t) ==
  IF missing \/ (org.ScoreCompletion = 0 /\ score.Type = Result)
  THEN [ValueModifiedTime |-> t,
        FailureTime |-> IF score.Value = 100 \/ score.ScoreCompletion < 100 THEN 0 ELSE t]
  ELSE IF (org.Value # score.Value \/ org.ScoreCompletion = 0) /\ score.Type = Result
  THEN [ValueModifiedTime |-> t, FailureTime |-> t]
  ELSE [ValueModifiedTime |-> org.ValueModifiedTime, FailureTime |-> org.FailureTime]

\* updateScore, the two timestamps of the score that is stored; missing
\* tells that GetScore found no score, org is then Score{}
Timestamps(missing, org, score, t) ==
  IF missing \/ (org.ScoreCompletion = 0 /\ score.Type = Result)
  THEN [ValueModifiedTime |-> t,
        FailureTime |-> IF score.Value = 100 \/ score.ScoreCompletion < 100 THEN 0 ELSE t]
  ELSE IF (org.Value # score.Value \/ org.ScoreCompletion = 0) /\ score.Type = Result
  THEN [ValueModifiedTime |-> t,
        FailureTime |-> IF org.Value = 100 THEN t ELSE org.FailureTime]
  ELSE [ValueModifiedTime |-> org.ValueModifiedTime, FailureTime |-> org.FailureTime]

\* Db.updateScore for the score slot `slot`: whether the score was updated,
\* the error, and the slot afterwards
updateScore(slot, score, t, accepted) ==
  LET missing == slot = {}
      org     == IF missing THEN EmptyScore ELSE CHOOSE o \in slot : TRUE
  IN IF ~missing /\ SameScore(org, score)
     THEN [ok |-> FALSE, err |-> "", slot |-> slot]
     ELSE LET ts == Timestamps(missing, org, score, t)
          IN IF ~accepted
             THEN [ok |-> FALSE, err |-> "failed to set score", slot |-> slot]
             ELSE [ok |-> TRUE, err |-> "",
                   slot |-> {[score EXCEPT !.ValueModifiedTime = ts.ValueModifiedTime,
                                           !.FailureTime = ts.FailureTime]}]

\* what the calls so far tell about q once the score was given at time t:
\* whether all were of Type Result, whether the latest is passing, and the
\* time of the first update after the most recent passing state
HistAfter(h, score, t) ==
  LET passing == score.Value = 100 /\ score.ScoreCompletion = 100
  IN [seq       |-> IF score.Type = Result /\ h.seq # "mixed" THEN "result" ELSE "mixed",
      passing   |-> passing,
      firstFail |-> IF passing THEN 0 ELSE IF h.passing THEN t ELSE h.firstFail]

\* Db.UpdateScores is called with a list of n scores: the time is read once
StartScores ==
  /\ pc = "idle"
  /\ ~dirty
  /\ \E n \in 0..MaxScores :
       IF n = 0
       THEN /\ ret' = [op |-> "UpdateScores", status |-> "ok", err |-> "", updated |-> {},
                       score |-> EmptyScore]
            /\ UNCHANGED <<pc, cur>>
       ELSE /\ pc' = "scores"
            /\ cur' = [op |-> "UpdateScores", n |-> n, i |-> 1, now |-> now, updated |-> {}]
            /\ ret' = NoCall
  /\ UNCHANGED <<dbvars, rcache, dirty, assigned, served, stale, storevars, extvars>>

UpdateScores == StartScores

\* one iteration of the loop of UpdateScores: updateScore for scores[i],
\* which is one of inputs
LoopScores(inputs) ==
  /\ pc = "scores"
  /\ \E score \in inputs, accepted \in BOOLEAN :
       LET q   == ScoredQrId
           r   == updateScore(scores[q], score, cur.now, accepted)
           upd == IF r.ok THEN cur.updated \cup {q} ELSE cur.updated
       IN
       /\ (~accepted => r.err # "")
       /\ scores' = [scores EXCEPT ![q] = r.slot]
       /\ hist' = IF r.err = "" THEN [hist EXCEPT ![q] = HistAfter(@, score, cur.now)] ELSE hist
       /\ IF r.err # ""
          THEN /\ pc' = "idle" /\ cur' = NoCall
               /\ ret' = [op |-> "UpdateScores", status |-> "error", err |-> r.err,
                          updated |-> {}, score |-> score]
          ELSE IF cur.i = cur.n
          THEN /\ pc' = "idle" /\ cur' = NoCall
               /\ ret' = [op |-> "UpdateScores", status |-> "ok", err |-> "",
                          updated |-> upd, score |-> score]
          ELSE /\ pc' = "scores"
               /\ cur' = [cur EXCEPT !.i = @ + 1, !.updated = upd]
               /\ ret' = [op |-> "updateScore", status |-> "ok", err |-> "",
                          updated |-> upd, score |-> score]
  /\ UNCHANGED <<dbvars, rcache, dirty, assigned, served, stale, assetw, data, now, extvars>>

ScoreStep == LoopScores(ScoreInputs)

\* time passes between two calls
Tick ==
  /\ pc = "idle"
  /\ now < MaxTime
  /\ now' = now + 1
  /\ UNCHANGED <<dbvars, rcache, pc, cur, ret, dirty, assigned, served, stale, assetw, scores, data, hist, extvars>>


\* ------------------------------------------- the asset's resolved policy
\* the resolved policies an asset is given: the collector job's reporting
\* jobs (uuid -> QrId; the apex has QrId "root") and datapoints (checksum ->
\* type).  Two jobs of Plan2 report on the same QrId.
Plan1 == [GraphExecutionChecksum |-> "g1",
          CollectorJob |-> [ReportingJobs |-> [u0 |-> "root", u1 |-> "q1"],
                            Datapoints    |-> [d1 |-> "int"]]]
Plan2 == [GraphExecutionChecksum |-> "g2",
          CollectorJob |-> [ReportingJobs |-> [u0 |-> "root", u1 |-> "q1", u2 |-> "q1"],
                            Datapoints    |-> [d1 |-> "int", d2 |-> "Unset"]]]
Plans    == {Plan1, Plan2}
Versions == {"v1", "v2"}

\* a data slot initialised by initDataValue: nil
DataNil == [kind |-> "nil", type |-> ""]

\* mutant of JobQrId: "root" is not replaced
JobQrId_KeepsRoot(a, qrid) == qrid

\* the QrId a reporting job's score is kept under: the asset's MRN for "root"
JobQrId(a, qrid) == IF qrid = "root" THEN a ELSE qrid

\* the QrIds of the reporting jobs in jobs
JobQrIds(a, rp, jobs) == {JobQrId(a, rp.CollectorJob.ReportingJobs[u]) : u \in jobs}

\* mutant of AlreadyCached: the check is gone
AlreadyCached_Never(w, rp, version) == FALSE

\* SetAssetResolvedPolicy, the check for an unchanged resolved policy
AlreadyCached(w, rp, version) ==
  /\ w.ResolvedPolicy # {}
  /\ \A x \in w.ResolvedPolicy : x.GraphExecutionChecksum = rp.GraphExecutionChecksum
  /\ w.resolvedPolicyVersion = version

\* the data slots after initDataValue ran for the datapoints in dps
initDataValue(dps) == [c \in Checksums |-> IF c \in dps /\ data[c] = {} THEN {DataNil} ELSE data[c]]

\* the score slots after initEmptyScore ran for the QrIds in qs
initEmptyScore(qs) == [q \in QrIds |-> IF q \in qs THEN {EmptyScore} ELSE scores[q]]

SetRec(a, rp, version, status, err, noop) ==
  [op |-> "SetAssetResolvedPolicy", asset |-> a, rp |-> rp, version |-> version,
   status |-> status, err |-> err, noop |-> noop]

\* Db.SetAssetResolvedPolicy.  A refused write ends the call; the slots the
\* two loops initialised before it (in the order the maps are ranged over)
\* stay initialised.
SetAssetResolvedPolicyOf(plans, versions, refusable) ==
  /\ pc = "idle"
  /\ ~dirty
  /\ \E a \in Assets, rp \in plans, version \in versions :
       LET w    == assetw[a]
           dps  == DOMAIN rp.CollectorJob.Datapoints
           jobs == DOMAIN rp.CollectorJob.ReportingJobs
       IN
       IF a \notin assets
       THEN /\ ret' = SetRec(a, rp, version, "error", "cannot find asset", FALSE)
            /\ UNCHANGED <<assetw, scores, data, hist>>
       ELSE IF AlreadyCached(w, rp, version)
       THEN /\ ret' = SetRec(a, rp, version, "ok", "", TRUE)
            /\ UNCHANGED <<assetw, scores, data, hist>>
       ELSE
         \/ /\ data' = initDataValue(dps)
            /\ scores' = initEmptyScore(JobQrIds(a, rp, jobs))
            /\ hist' = [q \in QrIds |-> IF q \in JobQrIds(a, rp, jobs) THEN NoHist ELSE hist[q]]
            /\ \/ /\ assetw' = [assetw EXCEPT ![a] = [ResolvedPolicy |-> {rp},
                                                     resolvedPolicyVersion |-> version]]
                  /\ ret' = SetRec(a, rp, version, "ok", "", FALSE)
               \/ /\ refusable
                  /\ ret' = SetRec(a, rp, version, "error", "failed to save resolved policy", FALSE)
                  /\ UNCHANGED assetw
         \/ /\ refusable
            /\ \E c \in {c \in dps : data[c] = {}} : \E before \in SUBSET (dps \ {c}) :
                 data' = initDataValue(before)
            /\ ret' = SetRec(a, rp, version, "error", "failed to init data", FALSE)
            /\ UNCHANGED <<assetw, scores, hist>>
         \/ /\ refusable
            /\ data' = initDataValue(dps)
            /\ \E u \in jobs : \E before \in SUBSET (jobs \ {u}) :
                 /\ scores' = initEmptyScore(JobQrIds(a, rp, before))
                 /\ hist' = [q \in QrIds |-> IF q \in JobQrIds(a, rp, before) THEN NoHist ELSE hist[q]]
            /\ ret' = SetRec(a, rp, version, "error", "failed to init score", FALSE)
            /\ UNCHANGED assetw
  /\ UNCHANGED <<dbvars, rcache, pc, cur, dirty, assigned, served, stale, now, extvars>>

SetAssetResolvedPolicy == SetAssetResolvedPolicyOf(Plans, Versions, TRUE)

\* the asset is registered: LocalServices.Assign of policy A to it
Register ==
  /\ pc = "idle"
  /\ ~dirty
  /\ \E a \in Assets : Mutate("Assign", a, [k \in {"A"} |-> ADD], TRUE, <<"A">>, FALSE)

\* the asset is given a resolved policy between two UpdateScores calls
Install == SetAssetResolvedPolicyOf({Plan1}, {"v1"}, FALSE)

NextScores == Register \/ Install \/ UpdateScores \/ ScoreStep \/ Tick

SpecScores == Init /\ [][NextScores]_vars

\* ------------------------------------------------------------ UpdateData
\* the values UpdateData is given: a result without Data, a nil value, and
\* values of a declared type ("" for none)
NoData     == [kind |-> "no_data", type |-> ""]
NilValue   == [kind |-> "nil_value", type |-> "nil"]
Value(typ) == [kind |-> "value", type |-> typ]

\* the data maps UpdateData is called with: d1 is a datapoint of both resolved
\* policies, d2 of Plan2 only
DataValues == [c \in Checksums |->
                 CASE c = "d1" -> {NoData, NilValue, Value(""), Value("int"), Value("string")}
                   [] OTHER    -> {NilValue, Value("string")}]
DataMaps == {m \in UNION {[S -> UNION {DataValues[c] : c \in S}] : S \in SUBSET Checksums} :
               /\ Cardinality(DOMAIN m) <= MaxData
               /\ \A c \in DOMAIN m : m[c] \in DataValues[c]}

\* UpdateData, the check of a value against the type of its datapoint
TypesDontMatch(val, infoType) ==
  /\ val.kind = "value"
  /\ val.type # ""
  /\ val.type # infoType
  /\ infoType # "Unset"

\* mutant of StoredData: the loop ends at the first mismatch
StoredData_StopsAtMismatch(m, processed, mismatch, refused) ==
  IF mismatch # {} THEN {} ELSE processed \ refused

\* UpdateData, the entries that setDatum stores: those processed that are
\* neither mismatching nor refused by the cache
StoredData(m, processed, mismatch, refused) == (processed \ mismatch) \ refused

\* Db.GetCollectorJob: the error, "" for none
GetCollectorJob(a) ==
  IF a \notin assets THEN "cannot find asset"
  ELSE IF assetw[a].ResolvedPolicy = {} THEN "cannot find resolved policy"
  ELSE ""

\* Db.UpdateData.  The map is ranged over in some order: an entry for a
\* checksum that is no datapoint ends the call, after the entries in before
\* were handled; a mismatching or refused entry is noted and the loop goes on.
UpdateData ==
  /\ pc = "idle"
  /\ ~dirty
  /\ \E a \in Assets, m \in DataMaps :
       LET rec == [op |-> "UpdateData", data |-> m, status |-> "ok", err |-> "",
                   named |-> {}, res |-> <<>>, refused |-> {}]
       IN
       IF GetCollectorJob(a) # ""
       THEN /\ ret' = [rec EXCEPT !.status = "error", !.err = "cannot find collectorJob"]
            /\ UNCHANGED data
       ELSE
       LET rp   == CHOOSE x \in assetw[a].ResolvedPolicy : TRUE
           dps  == rp.CollectorJob.Datapoints
           unknown == DOMAIN m \ DOMAIN dps
       IN
       \E processed \in (IF unknown = {} THEN {DOMAIN m} ELSE SUBSET (DOMAIN m \ unknown)),
          refused \in {S \in SUBSET DOMAIN m : Cardinality(S) <= 1} :
         LET mismatch == {c \in processed : TypesDontMatch(m[c], dps[c])}
             kept     == StoredData(m, processed, mismatch, refused)
             failed   == (processed \ mismatch) \cap refused
         IN
         /\ refused \subseteq processed \ mismatch
         /\ data' = [c \in Checksums |-> IF c \in kept THEN {m[c]} ELSE data[c]]
         /\ ret' = IF unknown # {}
                   THEN [rec EXCEPT !.status = "error", !.err = "cannot find this datapoint",
                                    !.named = unknown, !.refused = refused]
                   ELSE IF mismatch \cup failed # {}
                   THEN [rec EXCEPT !.status = "error", !.err = "multierror",
                                    !.named = mismatch \cup failed, !.refused = refused]
                   ELSE [rec EXCEPT !.res = [c \in kept |-> dps[c]]]
  /\ UNCHANGED <<dbvars, rcache, pc, cur, dirty, assigned, served, stale, assetw, scores, now, hist, extvars>>

\* -------------------------------------------------------------- GetReport
\* mutant of GetReport: a missing score is an error
GetReport_MissIsError(a, qrID) ==
  [status |-> "error", err |-> "cannot find score", EntityMrn |-> a, ScoringMrn |-> qrID,
   Score |-> {}, Scores |-> <<>>, Data |-> <<>>, ResolvedPolicyVersion |-> ""]

\* Db.GetReport with GetScore, GetScores and GetData: the report or the error
GetReport(a, qrID) ==
  LET emptyReport == [status |-> "ok", err |-> "", EntityMrn |-> a, ScoringMrn |-> qrID,
                      Score |-> {}, Scores |-> <<>>, Data |-> <<>>, ResolvedPolicyVersion |-> ""]
  IN
  IF scores[qrID] = {} THEN emptyReport
  ELSE IF a \notin assets
    THEN [emptyReport EXCEPT !.status = "error", !.err = "cannot find asset"]
  ELSE IF assetw[a].ResolvedPolicy = {}
    THEN [emptyReport EXCEPT !.status = "panic", !.err = "nil pointer dereference"]
  ELSE
  LET rp  == CHOOSE x \in assetw[a].ResolvedPolicy : TRUE
      qs  == JobQrIds(a, rp, DOMAIN rp.CollectorJob.ReportingJobs)
      dps == DOMAIN rp.CollectorJob.Datapoints
  IN
  IF \E q \in qs : scores[q] = {}
    THEN [emptyReport EXCEPT !.status = "error", !.err = "score not found"]
  ELSE IF \E c \in dps : data[c] = {}
    THEN [emptyReport EXCEPT !.status = "error", !.err = "failed to get data"]
  ELSE [emptyReport EXCEPT !.Score = scores[qrID],
                           !.Scores = [q \in qs |-> scores[q]],
                           !.Data = [c \in dps |-> data[c]],
                           !.ResolvedPolicyVersion = assetw[a].resolvedPolicyVersion]

\* Db.GetReport is called
Report ==
  /\ pc = "idle"
  /\ ~dirty
  /\ \E a \in Assets, qrID \in QrIds :
       ret' = [op |-> "GetReport", report |-> GetReport(a, qrID)]
  /\ UNCHANGED <<dbvars, rcache, pc, cur, dirty, assigned, served, stale, storevars, extvars>>

\* the scores recorded for the asset between two reports
ReportScores == {NewScore(Result, v, 100) : v \in {0, 100}}
RecordScore  == LoopScores(ReportScores)

NextReport == Register \/ SetAssetResolvedPolicy \/ UpdateData \/ UpdateScores \/ RecordScore \/ Report

SpecReport == Init /\ [][NextReport]_vars

\* ------------------------------------------------------------ properties
\* the record r describes a call of Db.MutatePolicy
IsMutate(r) == r.op \in {"MutatePolicy", "Assign", "Unassign"} /\ r.err # "no_mrn"

\* C1: in every state, for every pair of stored policy wrappers (a, b),
\* b is in a.children if and only if a is in b.parents
EdgeSymmetry ==
  \A a \in stored, b \in stored : b \in children[a] <=> a \in parents[b]

\* C1 witness: an Unassign has removed an edge and another edge is left
EdgeSymmetryWitness ==
  /\ pc = "idle" /\ ret.op = "Unassign" /\ ret.status = "ok" /\ ret.wrote /\ ~ret.same
  /\ children["as1"] = {"B"} /\ parents["B"] = {"as1"} /\ parents["A"] = {}

\* C2: after successful Assign / Unassign calls the asset policy's children
\* are exactly the policies assigned and not unassigned since, exactly those
\* policies list the asset as parent, and an Assign never fails because the
\* asset's policy is missing: it is created
AssignSetSemantics ==
  /\ (pc = "idle" /\ ~dirty) =>
       \A a \in Assets \cap stored :
         /\ children[a] = assigned[a]
         /\ \A p \in stored : a \in parents[p] <=> p \in assigned[a]
  /\ (pc = "idle" /\ ret.op = "Assign") => ret.err # "no_policy"
  /\ (pc = "idle" /\ ret.op = "Assign" /\ ret.status = "ok") => ret.target \in stored \cap assets

\* C2 witness: A and B were assigned, A was unassigned, B is left on both ends
AssignSetSemanticsWitness ==
  /\ pc = "idle" /\ ~dirty /\ ret.op = "Unassign" /\ ret.status = "ok" /\ ~ret.same
  /\ assigned["as1"] = {"B"} /\ children["as1"] = {"B"}
  /\ "as1" \in parents["B"] /\ "as1" \notin parents["A"]

\* the call the step has started: returned (ret') or inside
\* refreshDependentAssetFilters (cur'.r)
StepCall == IF pc' = "refresh" THEN cur'.r ELSE ret'

\* C3: a MutatePolicy call whose deltas are all ADDs of policies already in
\* the target's first group returns success in one step, writes nothing to
\* the cache and leaves the datalake as it was
AddIdempotent ==
  [][(pc = "idle" /\ IsMutate(StepCall) /\ StepCall.found /\ StepCall.present)
       => /\ pc' = "idle" /\ ret'.status = "ok" /\ ~ret'.wrote /\ ~ret'.refused
          /\ UNCHANGED <<dbvars, rcache, dirty, assigned>>]_vars

\* C3 witness: an Assign of policies that were all assigned already
AddIdempotentWitness ==
  /\ pc = "idle" /\ ret.op = "Assign" /\ IsMutate(ret) /\ ret.found /\ ret.present
  /\ ret.status = "ok" /\ children["as1"] # {}

\* C4 (as claimed): a MutatePolicy call whose deltas change nothing in the
\* target's set of sub-policies, a DELETE of a non-member included, returns
\* in one step, writes nothing and leaves the datalake as it was
UnchangedIsNotRewritten ==
  [][(pc = "idle" /\ IsMutate(StepCall) /\ StepCall.found /\ StepCall.known /\ StepCall.same)
       => /\ pc' = "idle" /\ ret'.status = "ok" /\ ~ret'.wrote
          /\ UNCHANGED dbvars]_vars

\* C5: after successful MutatePolicy calls every stored policy's asset
\* filters are the union of its own group filters and the asset filters of
\* every policy reachable through its sub-policy references
FilterClosure ==
  (pc = "idle" /\ ~dirty) =>
     \A p \in stored :
       filters[p] = ComputeAssetFilters(p) \cup UNION {filters[q] : q \in Reach(group, p)}

\* C5 witness: C was added to B while as1 -> A -> B, and C's filter has
\* reached as1
FilterClosureWitness ==
  /\ pc = "idle" /\ ~dirty /\ ret.op = "MutatePolicy" /\ ret.target = "B" /\ ret.status = "ok"
  /\ ~ret.same /\ "A" \in group["as1"] /\ "B" \in group["A"] /\ "C" \in group["B"]
  /\ "C" \notin group["as1"] \cup group["A"]
  /\ "f3" \in filters["as1"]

\* C6 (as claimed): a MutatePolicy call during which the cache refused a
\* write returns an error
RefusedWriteIsError ==
  (pc = "idle" /\ IsMutate(ret) /\ ret.refused) => ret.status = "error"

\* C7: a MutatePolicy call with a delta whose action is neither ADD nor
\* DELETE never succeeds, and when the call gets to that delta (the target is
\* stored and has a group, the policies named by the other deltas are stored,
\* no write was refused) it fails with invalid-argument
UnknownActionInvalidArgument ==
  (pc = "idle" /\ IsMutate(ret) /\ ret.others) =>
     /\ ret.status = "error"
     /\ (ret.found /\ ret.specs /\ ret.known /\ ~ret.refused)
          => (ret.code = "InvalidArgument" /\ ret.err = "InvalidArgument")

\* C7 witness: a call on a stored target returned invalid-argument for an
\* unknown action
UnknownActionInvalidArgumentWitness ==
  /\ pc = "idle" /\ IsMutate(ret) /\ ret.others /\ ret.found /\ ret.known
  /\ ret.status = "error" /\ ret.code = "InvalidArgument"

\* C8: resolve returns on attempt maxResolveRetry at the latest; every
\* attempt before the one it returns on gave the retry signal and was
\* followed by one back-off; a success or another error is returned as it
\* is, at once; the retry signal of the last attempt is returned as
\* "concurrent policy resolve", never as itself, with no back-off after it
RetryEnvelope ==
  [][/\ (pc = "try" /\ pc' = "sleep") =>
          /\ cur.i + 1 < maxResolveRetry
          /\ cur'.retries = cur.retries + 1
     /\ (pc = "sleep" /\ pc' = "try") =>
          /\ cur'.i = cur.i + 1 /\ cur'.i < maxResolveRetry
          /\ cur'.sleeps = cur.sleeps + 1
     /\ (pc = "try" /\ pc' = "idle") =>
          /\ cur.i + 1 <= maxResolveRetry
          /\ cur.retries = cur.i /\ cur.sleeps = cur.i
          /\ ret'.err # "retry"
          /\ ret'.out = "ok" => (ret'.status = "ok" /\ ret'.err = "")
          /\ ret'.out \notin {"ok", "retry"} => (ret'.status = "error" /\ ret'.err = ret'.out)
          /\ ret'.out = "retry" => /\ cur.i + 1 = maxResolveRetry
                                   /\ ret'.status = "error"
                                   /\ ret'.err = "concurrent policy resolve"]_vars

\* C8 witness: the third attempt gave the retry signal, like the two before
RetryEnvelopeWitness ==
  /\ pc = "idle" /\ ret.op = "Resolve" /\ ret.out = "retry"
  /\ ret.status = "error" /\ ret.err = "concurrent policy resolve"

\* C9: a Resolve(p, F) that follows a successful Resolve(p, F), with no
\* mutation and no eviction of its plan in between, returns on its first
\* attempt the plan the first call returned, from the cache: it builds and
\* stores nothing, and GraphExecutionChecksum, FiltersChecksum and the
\* execution job's checksum are those of the first call
ResolverMemoization ==
  [][(pc = "try" /\ Served(cur.target, cur.F) # {})
       => /\ pc' = "idle" /\ ret'.status = "ok" /\ cur.i = 0
          /\ ret'.hit /\ ~ret'.built /\ rcache' = rcache /\ ret'.rp \in rcache
          /\ \A x \in Served(cur.target, cur.F) :
               /\ ret'.rp = x.rp
               /\ ret'.rp.GraphExecutionChecksum = x.rp.GraphExecutionChecksum
               /\ ret'.rp.FiltersChecksum = x.rp.FiltersChecksum
               /\ ret'.rp.ExecutionJob = x.rp.ExecutionJob]_vars

\* C9 witness: the repeated call was given more filters than match
ResolverMemoizationWitness ==
  /\ pc = "idle" /\ ret.op = "Resolve" /\ ret.status = "ok"
  /\ ret.again /\ ret.hit /\ ret.superset

\* C10: a Resolve(p, F) never returns a plan that was cached for p when the
\* last MutatePolicy changed the sub-policies of p or of a policy reachable
\* from p, and the plan it returns carries p's GraphExecutionChecksum
NoStalePlan ==
  [][(pc = "try" /\ pc' = "idle" /\ ret'.status = "ok")
       => /\ <<cur.target, ret'.rp>> \notin stale
          /\ ret'.rp.GraphExecutionChecksum = gec[cur.target]]_vars

\* C10 witness: a plan was cached for A, C became a sub-policy of B below A,
\* and the next Resolve of A built a new plan
NoStalePlanWitness ==
  /\ pc = "idle" /\ ret.op = "Resolve" /\ ret.status = "ok"
  /\ ret.afterChange /\ ret.built /\ "B" \in group["A"] /\ "C" \in group["B"]
  /\ ret.rp.GraphExecutionChecksum = gec["A"]

\* C11 (as claimed): a Resolve(p, F) of a stored policy with no filter of F
\* among p's asset filters fails with InvalidArgument, the error carries the
\* structured reason no-matching-policy and lists the policy's filters and
\* the asset's filters, and no resolved policy is stored
NoMatchSurfacing ==
  [][(pc = "try" /\ cur.target \in stored /\ MatchingAssetFilters(cur.target, cur.F) = {})
       => /\ pc' = "idle" /\ ret'.status = "error"
          /\ ret'.detail.code = "InvalidArgument"
          /\ ret'.detail.reason = "no-matching-policy"
          /\ ret'.detail.policyFilter = filters[cur.target]
          /\ ret'.detail.filters = cur.F
          /\ rcache' = rcache]_vars

\* ----------------------------------------------- properties of the scores
\* a step of the loop of UpdateScores: the score stored before it, the
\* score it was given, the score stored after it
Prev     == scores[ScoredQrId]
Org      == IF Prev = {} THEN EmptyScore ELSE CHOOSE o \in Prev : TRUE
Incoming == ret'.score
Stored   == CHOOSE x \in scores'[ScoredQrId] : TRUE
\* the incoming score differs from the stored one in none of the six fields
Unchanged ==
  /\ Prev # {}
  /\ Org.Value = Incoming.Value /\ Org.Type = Incoming.Type
  /\ Org.DataCompletion = Incoming.DataCompletion /\ Org.DataTotal = Incoming.DataTotal
  /\ Org.ScoreCompletion = Incoming.ScoreCompletion /\ Org.Weight = Incoming.Weight
\* the step has written the incoming score
Written == pc = "scores" /\ ret'.err = "" /\ ~Unchanged

\* C12: an updateScore for a score that differs from the stored one in none
\* of Value, Type, DataCompletion, DataTotal, ScoreCompletion and Weight
\* writes nothing, the stored score keeps its Message and its two times,
\* and the QrId is not put into the updated set
SkipsUnchangedScore ==
  [][(pc = "scores" /\ Unchanged)
       => /\ scores' = scores
          /\ ret'.status = "ok"
          /\ (ScoredQrId \in ret'.updated => ScoredQrId \in cur.updated)]_vars

\* C12 witness: UpdateScores returned with nothing updated for a score that
\* differs from the stored one, saved earlier, in its Message only
SkipsUnchangedScoreWitness ==
  /\ pc = "idle" /\ ret.op = "UpdateScores" /\ ret.status = "ok" /\ ret.updated = {}
  /\ \E o \in scores[ScoredQrId] :
       /\ o.Value = ret.score.Value /\ o.Type = ret.score.Type
       /\ o.DataCompletion = ret.score.DataCompletion /\ o.DataTotal = ret.score.DataTotal
       /\ o.ScoreCompletion = ret.score.ScoreCompletion /\ o.Weight = ret.score.Weight
       /\ o.Message # ret.score.Message
       /\ o.ValueModifiedTime > 0 /\ o.ValueModifiedTime < now

\* the failure time the first-persistence rule gives
FirstFailureTime == IF Incoming.Value = 100 \/ Incoming.ScoreCompletion < 100 THEN 0 ELSE cur.now
\* the value-changed rule applies: a previous score, Type Result, another Value
ValueChanged == Prev # {} /\ Incoming.Type = Result /\ Org.Value # Incoming.Value

\* C13 (as claimed): a score that is written gets the first-persistence
\* times exactly when there was no previous score and its Type is Result;
\* outside that rule and the value-changed rule both times are carried forward
FirstPersistenceAsClaimed ==
  [][Written =>
       IF Prev = {} /\ Incoming.Type = Result
       THEN Stored.ValueModifiedTime = cur.now /\ Stored.FailureTime = FirstFailureTime
       ELSE ~ValueChanged => /\ Stored.ValueModifiedTime = Org.ValueModifiedTime
                             /\ Stored.FailureTime = Org.FailureTime]_vars

\* the first-persistence rule as the code has it: no previous score, or a
\* previous score of ScoreCompletion 0 and an incoming Result
FirstPersistence == Prev = {} \/ (Org.ScoreCompletion = 0 /\ Incoming.Type = Result)

\* C13 (amended): a score that is written gets ValueModifiedTime = now and
\* FailureTime = 0 (Value 100 or ScoreCompletion < 100) or now (otherwise)
\* when there was no previous score, or the previous score had
\* ScoreCompletion 0 and the incoming Type is Result; outside that rule and
\* the value-changed rule both times are carried forward
FirstPersistenceRule ==
  [][Written =>
       IF FirstPersistence
       THEN Stored.ValueModifiedTime = cur.now /\ Stored.FailureTime = FirstFailureTime
       ELSE ~ValueChanged => /\ Stored.ValueModifiedTime = Org.ValueModifiedTime
                             /\ Stored.FailureTime = Org.FailureTime]_vars

\* C13 witness: the slot held the empty score of SetAssetResolvedPolicy and
\* the first Result, a failing one, was saved with both times set to now
FirstPersistenceRuleWitness ==
  /\ pc = "idle" /\ ret.op = "UpdateScores" /\ ret.status = "ok" /\ ret.updated = {ScoredQrId}
  /\ hist[ScoredQrId] = [seq |-> "result", passing |-> FALSE, firstFail |-> now]
  /\ now > 1 /\ assetw["as1"].ResolvedPolicy # {}
  /\ \E o \in scores[ScoredQrId] :
       /\ o.Type = Result /\ o.Value = 0 /\ o.ScoreCompletion = 100
       /\ o.ValueModifiedTime = now /\ o.FailureTime = now

\* C14 (as claimed): a written Result whose Value differs from the previous
\* score's gets ValueModifiedTime = now, and FailureTime = now when the
\* previous Value was 100, the previous FailureTime otherwise
ValueChangeAsClaimed ==
  [][(Written /\ ValueChanged)
       => /\ Stored.ValueModifiedTime = cur.now
          /\ Stored.FailureTime = IF Org.Value = 100 THEN cur.now ELSE Org.FailureTime]_vars

\* C14 (amended): the same, for a previous score whose ScoreCompletion is not 0
ValueChangeRule ==
  [][(Written /\ ValueChanged /\ Org.ScoreCompletion # 0)
       => /\ Stored.ValueModifiedTime = cur.now
          /\ Stored.FailureTime = IF Org.Value = 100 THEN cur.now ELSE Org.FailureTime]_vars

\* C14 witness: a score that failed since time 1 got another failing Value
\* later: its ValueModifiedTime is the later time, its FailureTime still 1
ValueChangeRuleWitness ==
  /\ pc = "idle" /\ ret.op = "UpdateScores" /\ ret.status = "ok" /\ ret.updated = {ScoredQrId}
  /\ hist[ScoredQrId] = [seq |-> "result", passing |-> FALSE, firstFail |-> 1]
  /\ now > 1
  /\ \E o \in scores[ScoredQrId] :
       /\ o.Type = Result /\ o.Value = 50 /\ o.ScoreCompletion = 100
       /\ o.ValueModifiedTime = now /\ o.FailureTime = 1

\* C15 (as claimed): after UpdateScores calls of Type Result only, the
\* stored FailureTime is 0 if and only if the latest score has Value 100 and
\* ScoreCompletion 100, and otherwise it is the time of the first update
\* after the most recent passing state
FailureTimeHistory ==
  (pc = "idle" /\ hist[ScoredQrId].seq = "result") =>
     \A o \in scores[ScoredQrId] :
       o.FailureTime = IF o.Value = 100 /\ o.ScoreCompletion = 100
                       THEN 0 ELSE hist[ScoredQrId].firstFail

\* C16 (as claimed): a Result that has been failing since t1 > 0 and is
\* updated to Value 100 at t2 is stored with FailureTime 0 and
\* ValueModifiedTime t2
RecoveryResetsFailureTime ==
  [][(Written /\ Prev # {} /\ Org.Type = Result /\ Org.Value # 100 /\ Org.FailureTime > 0
        /\ Incoming.Type = Result /\ Incoming.Value = 100)
       => /\ Stored.FailureTime = 0
          /\ Stored.ValueModifiedTime = cur.now]_vars

\* ------------------------------------- properties of the data and reports
\* the resolved policy the asset holds
AssetPlan(a) == CHOOSE x \in assetw[a].ResolvedPolicy : TRUE
\* the datapoints of the asset's collector job
Catalog(a) == AssetPlan(a).CollectorJob.Datapoints
\* the entries of the data map m whose declared type disagrees with the catalog
Disagreeing(m, catalog) ==
  {c \in DOMAIN m : /\ m[c].kind = "value" /\ m[c].type # ""
                    /\ m[c].type # catalog[c] /\ catalog[c] # "Unset"}

\* C17: an UpdateData call whose checksums are all datapoints of the asset's
\* collector job leaves the slot of every entry with a disagreeing type as it
\* was, stores every other entry (unless the cache refuses the write), and
\* returns one aggregated error that names every disagreeing checksum
TypeMismatchPerEntry ==
  [][(/\ pc = "idle" /\ ret'.op = "UpdateData"
      /\ "as1" \in assets /\ assetw["as1"].ResolvedPolicy # {}
      /\ DOMAIN ret'.data \subseteq DOMAIN Catalog("as1"))
       => LET m   == ret'.data
              bad == Disagreeing(m, Catalog("as1"))
          IN /\ \A c \in bad : data'[c] = data[c]
             /\ \A c \in DOMAIN m \ bad : c \notin ret'.refused => data'[c] = {m[c]}
             /\ \A c \in Checksums \ DOMAIN m : data'[c] = data[c]
             /\ bad # {} => /\ ret'.status = "error" /\ ret'.err = "multierror"
                            /\ bad \subseteq ret'.named
             /\ (bad = {} /\ ret'.refused = {}) => ret'.status = "ok"]_vars

\* C17 witness: d1 (int) was given a string and d2 (Unset) a string in one
\* call; the slot of d1 is still nil, d2 is stored, the error names d1
TypeMismatchPerEntryWitness ==
  /\ pc = "idle" /\ ret.op = "UpdateData" /\ ret.status = "error" /\ ret.named = {"d1"}
  /\ DOMAIN ret.data = {"d1", "d2"} /\ ret.data["d1"] = Value("string")
  /\ data["d1"] = {DataNil} /\ data["d2"] = {Value("string")}

\* C18: a GetReport(asset, scoringMrn) with no score stored at (asset,
\* scoringMrn) returns no error and a report with EntityMrn and ScoringMrn
\* set and no score, scores or data, and changes nothing
EmptyReportOnMiss ==
  [][(pc = "idle" /\ ret'.op = "GetReport" /\ scores[ret'.report.ScoringMrn] = {})
       => /\ ret'.report.status = "ok" /\ ret'.report.err = ""
          /\ ret'.report.EntityMrn = "as1" /\ ret'.report.ScoringMrn \in QrIds
          /\ ret'.report.Score = {} /\ ret'.report.Scores = <<>> /\ ret'.report.Data = <<>>
          /\ ret'.report.ResolvedPolicyVersion = ""
          /\ UNCHANGED <<dbvars, rcache, storevars, pc, dirty>>]_vars

\* C18 witness: the asset has a resolved policy and a saved score at q1,
\* and the report asked for q2, where there is no score, came back empty
EmptyReportOnMissWitness ==
  /\ pc = "idle" /\ ret.op = "GetReport" /\ ret.report.status = "ok"
  /\ ret.report.ScoringMrn = "q2" /\ ret.report.Score = {} /\ ret.report.Scores = <<>>
  /\ assetw["as1"].ResolvedPolicy # {}
  /\ \E o \in scores["q1"] : o.Type = Result

\* C19: when SetAssetResolvedPolicy(asset, rp, v) has installed rp, the
\* score slot of every reporting job's QrId ("root" being the asset's MRN)
\* holds the empty score, every datapoint has a data slot, nil unless it was
\* there before, and GetReport(asset, assetMrn) returns without error one
\* score per distinct QrId, one data entry per datapoint, and the version v
InstallInitialisesSlots ==
  [][(pc = "idle" /\ ret'.op = "SetAssetResolvedPolicy" /\ ret'.status = "ok" /\ ~ret'.noop)
       => LET a   == "as1"
              cj  == ret'.rp.CollectorJob
              qs  == {IF cj.ReportingJobs[u] = "root" THEN a ELSE cj.ReportingJobs[u] :
                        u \in DOMAIN cj.ReportingJobs}
              rep == GetReport(a, a)'
          IN /\ assetw'[a] = [ResolvedPolicy |-> {ret'.rp}, resolvedPolicyVersion |-> ret'.version]
             /\ \A q \in qs : scores'[q] = {EmptyScore}
             /\ \A c \in DOMAIN cj.Datapoints :
                  data'[c] = IF data[c] = {} THEN {DataNil} ELSE data[c]
             /\ rep.status = "ok"
             /\ DOMAIN rep.Scores = qs /\ \A q \in qs : rep.Scores[q] = {EmptyScore}
             /\ DOMAIN rep.Data = DOMAIN cj.Datapoints
             /\ \A c \in DOMAIN cj.Datapoints : rep.Data[c] = data'[c]
             /\ rep.ResolvedPolicyVersion = ret'.version]_vars

\* C19 witness: Plan2, two of whose jobs report on q1, was installed under
\* v2 over data saved for d1, and the report for the asset's MRN has the
\* scores of as1 and q1, the saved d1 and a nil d2
InstallInitialisesSlotsWitness ==
  /\ pc = "idle" /\ ret.op = "GetReport" /\ ret.report.status = "ok"
  /\ ret.report.ScoringMrn = "as1" /\ ret.report.ResolvedPolicyVersion = "v2"
  /\ assetw["as1"] = [ResolvedPolicy |-> {Plan2}, resolvedPolicyVersion |-> "v2"]
  /\ DOMAIN ret.report.Scores = {"as1", "q1"}
  /\ ret.report.Scores["as1"] = {EmptyScore} /\ ret.report.Scores["q1"] = {EmptyScore}
  /\ DOMAIN ret.report.Data = {"d1", "d2"}
  /\ ret.report.Data["d1"] = {Value("int")} /\ ret.report.Data["d2"] = {DataNil}

\* C20: a SetAssetResolvedPolicy call with the GraphExecutionChecksum and the
\* version the asset's resolved policy already has returns success and
\* leaves the asset wrapper, every data slot and every score slot as it was
UnchangedPolicyIsNoOp ==
  [][(/\ pc = "idle" /\ ret'.op = "SetAssetResolvedPolicy"
      /\ ret'.asset \in assets
      /\ \E x \in assetw[ret'.asset].ResolvedPolicy :
           x.GraphExecutionChecksum = ret'.rp.GraphExecutionChecksum
      /\ assetw[ret'.asset].resolvedPolicyVersion = ret'.version)
       => /\ ret'.status = "ok"
          /\ UNCHANGED <<assetw, scores, data, hist>>]_vars

\* C20 witness: the call was a no-op over a saved score and saved data
UnchangedPolicyIsNoOpWitness ==
  /\ pc = "idle" /\ ret.op = "SetAssetResolvedPolicy" /\ ret.status = "ok" /\ ret.noop
  /\ \E o \in scores["q1"] : o.Type = Result /\ o.ValueModifiedTime > 0 /\ o.FailureTime > 0
  /\ data["d1"] = {Value("int")}

\* ---------------------------------------------------------------- SetProps
MaxProps == 2          \* longest Props list of one SetProps request
\* the properties a request may hold: p1 and u1 are properties of policy A,
\* p3 is a property of no policy, and one property has neither Mrn nor Uid
ReqProperties == {Property("p1", "", "m0"), Property("p1", "", "m1"), Property("", "u1", "m1"),
                  Property("p3", "", "m1"), Property("", "", "m1")}
\* the entities of the requests: a policy with properties, one without, and
\* an MRN that is not stored
PropsEntities == {"A", "B", "X"}
PropsLists == UNION {[1..n -> ReqProperties] : n \in 0..MaxProps}

\* SetProps, the index built over policyw.Props: each non-empty Mrn and Uid
\* is mapped to its property, the last one in the list if several have it
propsIdx(ps) ==
  LET ids == {ps[i].Mrn : i \in DOMAIN ps} \cup {ps[i].Uid : i \in DOMAIN ps}
      Max(S) == CHOOSE x \in S : \A y \in S : y <= x
  IN [id \in ids \ {""} |-> Max({i \in DOMAIN ps : ps[i].Mrn = id \/ ps[i].Uid = id})]

\* SetProps, the loop over req.Props from the i-th on.  props is the local
\* slice policyw.Props, idx maps an id to a position in it; a property found
\* in idx has its Mql set through the pointer, another is appended
RECURSIVE SetPropsLoop(_, _, _, _)
SetPropsLoop(req, i, props, idx) ==
  IF i > Len(req) THEN [err |-> "", props |-> props]
  ELSE
  LET c  == req[i]
      id == IF c.Mrn = "" THEN c.Uid ELSE c.Mrn
  IN IF id = "" THEN [err |-> "cannot set property without MRN", props |-> props]
     ELSE IF id \in DOMAIN idx
     THEN SetPropsLoop(req, i + 1, [props EXCEPT ![idx[id]].Mql = c.Mql], idx)
     ELSE SetPropsLoop(req, i + 1, Append(props, c),
                       [x \in DOMAIN idx \cup {id} |-> IF x = id THEN Len(props) + 1 ELSE idx[x]])

\* Db.SetProps.  policyw is a copy of the stored wrapper: its Props slice
\* shares the stored properties, so an Mql set through a pointer changes the
\* stored property, and the slice grown by append stays with the copy, which
\* is not written back
SetProps ==
  /\ pc = "idle"
  /\ \E e \in PropsEntities, req \in PropsLists :
       LET call == [op |-> "SetProps", entity |-> e, props |-> req, status |-> "ok", err |-> ""]
       IN
       IF e \notin stored
       THEN /\ ret' = [call EXCEPT !.status = "error", !.err = "could not find it"]
            /\ UNCHANGED propsw
       ELSE LET r == SetPropsLoop(req, 1, propsw[e], propsIdx(propsw[e]))
            IN /\ propsw' = [propsw EXCEPT ![e] = SubSeq(r.props, 1, Len(propsw[e]))]
               /\ ret' = IF r.err = "" THEN call
                                       ELSE [call EXCEPT !.status = "error", !.err = r.err]
  /\ UNCHANGED <<dbvars, rcache, pc, cur, dirty, assigned, served, stale, storevars,
                 bundle, pol, scan, conc>>

NextProps == SetProps

SpecProps == Init /\ [][NextProps]_vars

\* the id SetProps knows a request property by
PropId(c) == IF c.Mrn = "" THEN c.Uid ELSE c.Mrn

\* C21: after SetProps(entity, props) returned success, the stored wrapper of
\* entity holds, for every property of the request, a property of that id
\* with the Mql the request gave it last
SetPropsWritesBack ==
  [][(pc = "idle" /\ ret'.op = "SetProps" /\ ret'.status = "ok")
       => \A i \in DOMAIN ret'.props :
            LET id   == PropId(ret'.props[i])
                last == CHOOSE j \in DOMAIN ret'.props :
                          /\ PropId(ret'.props[j]) = id
                          /\ \A k \in DOMAIN ret'.props : PropId(ret'.props[k]) = id => k <= j
                ps   == propsw'[ret'.entity]
            IN \E n \in DOMAIN ps : /\ (ps[n].Mrn = id \/ ps[n].Uid = id)
                                     /\ ps[n].Mql = ret'.props[last].Mql]_vars

\* ------------------------------------------------------------ bundle map
MaxNames  == 2         \* longest names list of one SelectPolicies call
MaxGroups == 1         \* most groups of a policy given to ValidatePolicy

\* a policy of a bundle: its Mrn and, per group, the Mrns of group.Policies
BundlePolicy(mrn, groupRefs) == [Mrn |-> mrn, Groups |-> groupRefs]
\* the policies bundles are made of: A depends on B and C, B on C and on D,
\* which no bundle holds; B may instead name itself or a policy without Mrn,
\* and C may depend on A
BundlePolicies ==
  {BundlePolicy("A", <<<<"B">>, <<"C">>>>),
   BundlePolicy("B", <<<<"C", "D">>>>), BundlePolicy("B", <<<<"B">>>>), BundlePolicy("B", <<<<"">>>>),
   BundlePolicy("C", <<>>), BundlePolicy("C", <<<<"A">>>>)}
BundleKeys == {"A", "B", "C", "D"}
\* the queries given to Add with a policy: none, or q1
AddQueries == {<<>>, [q \in {"q1"} |-> {"c1"}]}

\* m with key k set to v
MapSet(m, k, v) == [x \in DOMAIN m \cup {k} |-> IF x = k THEN v ELSE m[x]]

\* PolicyBundleMap.Add
Add ==
  /\ pc = "idle"
  /\ \E policy \in BundlePolicies, queries \in AddQueries :
       /\ bundle' = [bundle EXCEPT
            !.Policies = MapSet(bundle.Policies, policy.Mrn, {policy}),
            !.Queries  = [q \in DOMAIN bundle.Queries \cup DOMAIN queries |->
                            IF q \in DOMAIN queries THEN queries[q] ELSE bundle.Queries[q]]]
       /\ ret' = [op |-> "Add", status |-> "ok", err |-> ""]
  /\ UNCHANGED <<dbvars, rcache, pc, cur, dirty, assigned, served, stale, storevars,
                 propsw, pol, scan, conc>>

\* ------------------------------------------------------- SelectPolicies
\* the names given to SelectPolicies: A and B may be in the map, E never is
SelectNames == {"A", "B", "E"}
NamesLists == UNION {[1..n -> SelectNames] : n \in 0..MaxNames}
Range(f) == {f[i] : i \in DOMAIN f}

\* mutant of SelectPolicies: the missing names are found after the map was
\* filtered
SelectedPolicies_FiltersFirst(P, names) ==
  LET missing == {n \in Range(names) : n \notin DOMAIN P}
      kept    == [k \in DOMAIN P \cap Range(names) |-> P[k]]
  IN IF Len(names) = 0 THEN [err |-> "", missing |-> {}, Policies |-> P]
     ELSE IF missing # {} THEN [err |-> "failed to find the following policies", missing |-> missing,
                                Policies |-> kept]
     ELSE [err |-> "", missing |-> {}, Policies |-> kept]

\* PolicyBundleMap.SelectPolicies on the policy map P: the error, the names
\* it lists, and the map afterwards
SelectedPolicies(P, names) ==
  LET missing == {n \in Range(names) : n \notin DOMAIN P}
  IN IF Len(names) = 0 THEN [err |-> "", missing |-> {}, Policies |-> P]
     ELSE IF missing # {} THEN [err |-> "failed to find the following policies", missing |-> missing,
                                Policies |-> P]
     ELSE [err |-> "", missing |-> {}, Policies |-> [k \in DOMAIN P \cap Range(names) |-> P[k]]]

SelectPolicies ==
  /\ pc = "idle"
  /\ \E names \in NamesLists :
       LET r == SelectedPolicies(bundle.Policies, names)
       IN /\ bundle' = [bundle EXCEPT !.Policies = r.Policies]
          /\ ret' = [op |-> "SelectPolicies", names |-> names,
                     status |-> IF r.err = "" THEN "ok" ELSE "error", err |-> r.err,
                     missing |-> r.missing]
  /\ UNCHANGED <<dbvars, rcache, pc, cur, dirty, assigned, served, stale, storevars,
                 propsw, pol, scan, conc>>

\* ------------------------------------------- PoliciesSortedByDependency
\* the Mrns of group.Policies of all groups, in the order of the two loops
RECURSIVE GroupRefs(_)
GroupRefs(gs) == IF gs = <<>> THEN <<>> ELSE Head(gs) \o GroupRefs(Tail(gs))

\* sortPolicies(p, bundle, indexer) for the entry slot of the policy map P,
\* and its loop over the references from the i-th on.  The result is the
\* error ("panic" when a nil policy is dereferenced), the sorted policies
\* (by Mrn) and the indexer
RECURSIVE sortPolicies(_, _, _), sortRefs(_, _, _, _, _)
sortPolicies(slot, P, indexer) ==
  IF slot = {} THEN [err |-> "panic", res |-> <<>>, indexer |-> indexer]
  ELSE LET p == CHOOSE x \in slot : TRUE
           r == sortRefs(GroupRefs(p.Groups), 1, P, indexer \cup {p.Mrn}, <<>>)
       IN IF r.err # "" THEN r ELSE [r EXCEPT !.res = Append(r.res, p.Mrn)]
sortRefs(refs, i, P, indexer, res) ==
  IF i > Len(refs) THEN [err |-> "", res |-> res, indexer |-> indexer]
  ELSE IF refs[i] = ""
    THEN [err |-> "failed to sort policies: dependency MRN is empty", res |-> <<>>, indexer |-> indexer]
  ELSE IF refs[i] \in indexer \/ refs[i] \notin DOMAIN P
    THEN sortRefs(refs, i + 1, P, indexer, res)
  ELSE LET d == sortPolicies(P[refs[i]], P, indexer)
       IN IF d.err # "" THEN [d EXCEPT !.res = <<>>]
          ELSE sortRefs(refs, i + 1, P, d.indexer, res \o d.res)

\* PoliciesSortedByDependency, the loop over the policy map in the order
\* keys, from the i-th key on
RECURSIVE SortFrom(_, _, _, _, _)
SortFrom(keys, i, P, indexer, res) ==
  IF i > Len(keys) THEN [err |-> "", res |-> res]
  ELSE IF P[keys[i]] = {} THEN [err |-> "panic", res |-> <<>>]
  ELSE IF (CHOOSE x \in P[keys[i]] : TRUE).Mrn \in indexer
    THEN SortFrom(keys, i + 1, P, indexer, res)
  ELSE LET d == sortPolicies(P[keys[i]], P, indexer)
       IN IF d.err # "" THEN [err |-> d.err, res |-> <<>>]
          ELSE SortFrom(keys, i + 1, P, d.indexer, res \o d.res)

PoliciesSortedByDependency ==
  /\ pc = "idle"
  /\ \E order \in Orders(DOMAIN bundle.Policies) :        \* the order of the range over the map
       LET r == SortFrom(order, 1, bundle.Policies, {}, <<>>)
       IN ret' = [op |-> "PoliciesSortedByDependency",
                  status |-> IF r.err = "" THEN "ok" ELSE IF r.err = "panic" THEN "panic" ELSE "error",
                  err |-> r.err, res |-> r.res]
  /\ UNCHANGED <<dbvars, rcache, pc, cur, dirty, assigned, served, stale, storevars,
                 extvars>>

\* ------------------------------------------------------- ValidatePolicy
\* mrn.IsValid and version.NewSemver on the values policies are given
ValidMrns    == {"A"}
PolicyMrns   == ValidMrns \cup {"not an mrn"}
Semvers      == {"1.2.3"}
Versions_    == Semvers \cup {"", "1.x"}
\* a check or data query of a group: its Mrn and its Action
Member(mrn, action) == [Mrn |-> mrn, Action |-> action]
\* q1 is among the bundle's queries after an Add, q2 is in the Library, q3 in
\* neither
MemberLists == {<<>>, <<Member("q1", ADD)>>, <<Member("q1", "MODIFY")>>,
                <<Member("q2", ADD)>>, <<Member("q2", "MODIFY"), Member("q3", "UNSPECIFIED")>>,
                <<Member("q3", "MODIFY")>>}
RefLists    == {<<>>, <<"B">>, <<"D">>, <<"B", "E">>}
\* group == nil
NilGroup == [nil |-> TRUE, filterErr |-> FALSE, Checks |-> <<>>, Queries |-> <<>>, Policies |-> <<>>]
\* a group; filterErr: one of its filters does not compile
Group(f, c, q, r) == [nil |-> FALSE, filterErr |-> f, Checks |-> c, Queries |-> q, Policies |-> r]
\* the groups of the policies given to ValidatePolicy: nil, with a filter that
\* does not compile, with checks, with queries or with policies only, and
\* with all three
ValGroups == {NilGroup, Group(TRUE, <<>>, <<>>, <<>>)}
             \cup {Group(FALSE, c, <<>>, <<>>) : c \in MemberLists}
             \cup {Group(FALSE, <<>>, q, <<>>) : q \in {<<Member("q2", "MODIFY")>>, <<Member("q1", ADD)>>}}
             \cup {Group(FALSE, <<>>, <<>>, r) : r \in RefLists}
             \cup {Group(FALSE, <<Member("q2", "MODIFY")>>, <<Member("q1", "MODIFY")>>, <<"D">>)}

\* mutant of queryExists: the Library is not consulted
queryExists_BundleOnly(B, mrn) == [exist |-> mrn \in DOMAIN B.Queries, B |-> B]

\* PolicyBundleMap.queryExists: the answer and the bundle map afterwards
queryExists(B, mrn) ==
  IF mrn \in DOMAIN B.Queries THEN [exist |-> TRUE, B |-> B]
  ELSE IF B.Library.present
    THEN IF mrn \in B.Library.Queries
         THEN [exist |-> TRUE, B |-> [B EXCEPT !.Queries = MapSet(B.Queries, mrn, {})]]
         ELSE [exist |-> FALSE, B |-> B]
  ELSE [exist |-> FALSE, B |-> B]

\* mutant of policyExists: the Library is not consulted
policyExists_BundleOnly(B, mrn) == [exist |-> mrn \in DOMAIN B.Policies, B |-> B]

\* PolicyBundleMap.policyExists: the answer and the bundle map afterwards
policyExists(B, mrn) ==
  IF mrn \in DOMAIN B.Policies THEN [exist |-> TRUE, B |-> B]
  ELSE IF B.Library.present
    THEN IF mrn \in B.Library.Policies
         THEN [exist |-> TRUE, B |-> [B EXCEPT !.Policies = MapSet(B.Policies, mrn, {})]]
         ELSE [exist |-> FALSE, B |-> B]
  ELSE [exist |-> FALSE, B |-> B]

\* validateSpec, the loop over group.Checks or group.Queries (kind names
\* which) from the i-th member on: the error and the bundle map afterwards
RECURSIVE validateMembers(_, _, _, _)
validateMembers(kind, ms, i, B) ==
  IF i > Len(ms) THEN [err |-> "", B |-> B]
  ELSE LET e == queryExists(B, ms[i].Mrn)
       IN IF ms[i].Action = ADD /\ e.exist
            THEN [err |-> kind \o " already exists, but policy is trying to add it", B |-> e.B]
          ELSE IF ms[i].Action = "MODIFY" /\ ~e.exist
            THEN [err |-> kind \o " does not exist, but policy is trying to modify it", B |-> e.B]
          ELSE validateMembers(kind, ms, i + 1, e.B)

\* validateSpec, the loop over group.Policies
RECURSIVE validateRefs(_, _, _)
validateRefs(refs, i, B) ==
  IF i > Len(refs) THEN [err |-> "", B |-> B]
  ELSE LET e == policyExists(B, refs[i])
       IN IF ~e.exist
            THEN [err |-> "policy does not exist, but policy is trying to modify it", B |-> e.B]
          ELSE validateRefs(refs, i + 1, e.B)

\* PolicyBundleMap.validateSpec
validateSpec(g, B) ==
  IF g.nil THEN [err |-> "spec cannot be nil", B |-> B]
  ELSE IF g.filterErr THEN [err |-> "failed to compile filter", B |-> B]
  ELSE LET c == validateMembers("check", g.Checks, 1, B)
       IN IF c.err # "" THEN c
          ELSE LET q == validateMembers("query", g.Queries, 1, c.B)
               IN IF q.err # "" THEN q ELSE validateRefs(g.Policies, 1, q.B)

\* ValidatePolicy, the semver check that follows the groups
SemverError(version) ==
  IF version # "" /\ version \notin Semvers THEN "is not a valid semver version" ELSE ""

\* what a group must meet for ValidatePolicy to go on: it is not nil, its
\* filters compile, no check or query has ADD on a query that exists or
\* MODIFY on one that does not, and every referenced policy exists; a query
\* or policy exists if the bundle map has the key or the Library knows it
QueryKnown(B, m)  == m \in DOMAIN B.Queries \/ (B.Library.present /\ m \in B.Library.Queries)
PolicyKnown(B, m) == m \in DOMAIN B.Policies \/ (B.Library.present /\ m \in B.Library.Policies)
Inconsistent(B, m) == \/ m.Action = ADD /\ QueryKnown(B, m.Mrn)
                      \/ m.Action = "MODIFY" /\ ~QueryKnown(B, m.Mrn)
GroupAcceptable(B, g) ==
  /\ ~g.nil /\ ~g.filterErr
  /\ \A i \in DOMAIN g.Checks  : ~Inconsistent(B, g.Checks[i])
  /\ \A i \in DOMAIN g.Queries : ~Inconsistent(B, g.Queries[i])
  /\ \A i \in DOMAIN g.Policies : PolicyKnown(B, g.Policies[i])

\* the record of a ValidatePolicy call: the policy's Mrn and Version, the
\* number of its groups and the groups validated so far; whether all of
\* these were acceptable, and whether all the policies they reference were
\* keys of the bundle's policy map
ValidateCall(mrn, version, n) ==
  [op |-> "ValidatePolicy", Mrn |-> mrn, Version |-> version, n |-> n, i |-> 0,
   status |-> "ok", err |-> "", acceptable |-> TRUE, inBundle |-> TRUE, group |-> NilGroup]

\* ValidatePolicy up to its loop over the groups
StartValidate ==
  /\ pc = "idle"
  /\ \E mrn \in PolicyMrns, version \in Versions_, n \in 0..MaxGroups :
       LET c == ValidateCall(mrn, version, n)
       IN IF mrn \notin ValidMrns
          THEN /\ ret' = [c EXCEPT !.status = "error", !.err = "policy MRN is not valid"]
               /\ UNCHANGED <<pc, cur>>
          ELSE IF n = 0
          THEN /\ ret' = IF SemverError(version) = "" THEN c
                         ELSE [c EXCEPT !.status = "error", !.err = SemverError(version)]
               /\ UNCHANGED <<pc, cur>>
          ELSE /\ pc' = "validate"
               /\ cur' = c
               /\ ret' = NoCall
  /\ UNCHANGED <<dbvars, rcache, dirty, assigned, served, stale, storevars, extvars>>

ValidatePolicy == StartValidate

\* ValidatePolicy, one turn of the loop over policy.Groups: validateSpec of
\* the next group; after the last group the semver check, and the return
ValidateGroup ==
  /\ pc = "validate"
  /\ \E g \in ValGroups :
       LET r == validateSpec(g, bundle)
           c == [cur EXCEPT !.i = cur.i + 1, !.group = g,
                            !.acceptable = cur.acceptable /\ GroupAcceptable(bundle, g),
                            !.inBundle = cur.inBundle /\ \A k \in DOMAIN g.Policies :
                                                           g.Policies[k] \in DOMAIN bundle.Policies]
       IN /\ bundle' = r.B
          /\ IF r.err # ""
             THEN /\ ret' = [c EXCEPT !.status = "error", !.err = r.err]
                  /\ pc' = "idle" /\ cur' = NoCall
             ELSE IF c.i = c.n
             THEN /\ ret' = IF SemverError(c.Version) = "" THEN c
                            ELSE [c EXCEPT !.status = "error", !.err = SemverError(c.Version)]
                  /\ pc' = "idle" /\ cur' = NoCall
             ELSE /\ cur' = c
                  /\ ret' = NoCall
                  /\ pc' = pc
  /\ UNCHANGED <<dbvars, rcache, dirty, assigned, served, stale, storevars,
                 propsw, pol, scan, conc>>

\* a bundle map is made with or without a Library
InitBundle ==
  /\ InitDb
  /\ bundle \in {NewPolicyBundleMap(NoLibrary), NewPolicyBundleMap(TheLibrary)}

NextBundle == Add \/ SelectPolicies \/ PoliciesSortedByDependency \/ ValidatePolicy \/ ValidateGroup

SpecBundle == InitBundle /\ [][NextBundle]_vars

Refs(P, k) == IF P[k] = {} THEN {}
              ELSE Range(GroupRefs((CHOOSE x \in P[k] : TRUE).Groups)) \cap DOMAIN P
\* the keys reached from the keys in S along references
RECURSIVE Reached(_, _)
Reached(P, S) ==
  LET T == S \cup UNION {Refs(P, k) : k \in S} IN IF T = S THEN S ELSE Reached(P, T)
\* no policy of the map reaches itself along references
AcyclicRefs(P) == \A k \in DOMAIN P : k \notin Reached(P, Refs(P, k))
\* a policy of the map has a reference with an empty Mrn
EmptyRef(P) == \E k \in DOMAIN P :
                 P[k] # {} /\ "" \in Range(GroupRefs((CHOOSE x \in P[k] : TRUE).Groups))
\* res holds every key of P once, each after the policies it references
SortedByDependency(P, res) ==
  /\ Len(res) = Cardinality(DOMAIN P)
  /\ Range(res) = DOMAIN P
  /\ \A i, j \in DOMAIN res : res[j] \in Refs(P, res[i]) => j < i

\* C23: PoliciesSortedByDependency on a bundle map with acyclic references
\* returns an error if a policy has a reference with an empty Mrn, and
\* otherwise every policy of the map once, each after the policies of the map
\* it references, in whatever order the map is ranged over
SortIsTopological ==
  [][(pc = "idle" /\ ret'.op = "PoliciesSortedByDependency" /\ AcyclicRefs(bundle.Policies))
       => IF EmptyRef(bundle.Policies)
          THEN ret'.status = "error"
          ELSE ret'.status = "ok" /\ SortedByDependency(bundle.Policies, ret'.res)]_vars

\* what holds of the sort: the same on the maps without a nil entry
SortIsTopologicalWithoutNil ==
  [][(/\ pc = "idle" /\ ret'.op = "PoliciesSortedByDependency" /\ AcyclicRefs(bundle.Policies)
      /\ \A k \in DOMAIN bundle.Policies : bundle.Policies[k] # {})
       => IF EmptyRef(bundle.Policies)
          THEN ret'.status = "error"
          ELSE ret'.status = "ok" /\ SortedByDependency(bundle.Policies, ret'.res)]_vars

\* C24: PoliciesSortedByDependency on a bundle map whose references have a
\* cycle returns an error
CycleIsAnError ==
  [][(pc = "idle" /\ ret'.op = "PoliciesSortedByDependency" /\ ~AcyclicRefs(bundle.Policies))
       => ret'.status = "error"]_vars

\* the group the ValidatePolicy step has validated
Validated == IF pc' = "idle" THEN ret'.group ELSE cur'.group

\* C25: a group with a check or data query that has ADD on a query that
\* exists (in the bundle's queries or in the Library) or MODIFY on one that
\* does not, or with a policy that exists neither in the bundle's policies
\* nor in the Library, makes ValidatePolicy return an error
RejectsInconsistentMembers ==
  [][(/\ pc = "validate" /\ ~Validated.nil
      /\ \/ \E i \in DOMAIN Validated.Checks  : Inconsistent(bundle, Validated.Checks[i])
         \/ \E i \in DOMAIN Validated.Queries : Inconsistent(bundle, Validated.Queries[i])
         \/ \E i \in DOMAIN Validated.Policies : ~PolicyKnown(bundle, Validated.Policies[i]))
       => pc' = "idle" /\ ret'.op = "ValidatePolicy" /\ ret'.status = "error"]_vars

\* C25 witness: a check with ADD on q2, which only the Library has, was
\* rejected
RejectsInconsistentMembersWitness ==
  /\ pc = "idle" /\ ret.op = "ValidatePolicy" /\ ret.status = "error"
  /\ ret.group.Checks = <<Member("q2", ADD)>>
  /\ bundle.Library.present /\ "q2" \in DOMAIN bundle.Queries /\ bundle.Queries["q2"] = {}

AssetMrns == {"asset1", "asset1bling"}
\* the changes of a policy's Mrn: to "normal mrn", by appending "bling" to an
\* asset MRN, and between a policy MRN and an asset MRN
MrnChanges == {<<"mrn1", "normal mrn">>, <<"asset1", "asset1bling">>,
               <<"mrn1", "asset1">>, <<"asset1", "normal mrn">>}

MaxChanges == 3       \* most changes made to the fields of one policy object

\* the value a field is changed to
NewValue(f) ==
  CASE f = "Authors" -> "Bob"     [] f = "Tags"    -> "key=val"
    [] f = "Name"    -> "nu name" [] f = "Version" -> "1.2.3"
    [] f = "Created" -> "12345"   [] f = "CodeId"  -> "12345"
    [] f = "Scoring" -> "WORST"

\* the four checksums of p
ChecksumsOf(p) ==
  [LocalContent |-> p.LocalContentChecksum, LocalExecution |-> p.LocalExecutionChecksum,
   GraphContent |-> p.GraphContentChecksum, GraphExecution |-> p.GraphExecutionChecksum]

\* the local execution checksum: the queries and scoring of the groups and
\* the policy's MRN, with "root" in place of the MRN of an asset policy
LocalExecutionOf(p) ==
  <<IF p.Mrn \in AssetMrns THEN "root" ELSE p.Mrn, p.CodeId, p.Scoring>>

\* mutant of LocalContentOf: the execution checksum is not folded in
LocalContentOf_ContentOnly(p) ==
  <<p.Mrn, p.Name, p.Version, p.Authors, p.Tags, p.Created>>

\* the local content checksum: the documentation fields and the MRN, folded
\* over the local execution checksum
LocalContentOf(p) ==
  <<p.Mrn, p.Name, p.Version, p.Authors, p.Tags, p.Created, LocalExecutionOf(p)>>

\* the graph checksums: the local checksum, the graph checksums of the
\* dependencies (one dependency, which does not change) and, for execution,
\* the filters
GraphContentOf(local)   == <<local, "dep.content">>
GraphExecutionOf(local) == <<local, "dep.execution", "filters">>

\* mutant of InvalidatedLocal: the graph checksums are kept
InvalidatedLocal_KeepsGraph(p) ==
  [p EXCEPT !.LocalContentChecksum = {}, !.LocalExecutionChecksum = {}]

\* Policy.InvalidateLocalChecksums: clears the local and the graph checksums
InvalidatedLocal(p) ==
  [p EXCEPT !.LocalContentChecksum = {}, !.LocalExecutionChecksum = {},
            !.GraphContentChecksum = {}, !.GraphExecutionChecksum = {}]

\* Policy.InvalidateGraphChecksums: clears the graph checksums only
InvalidatedGraph(p) ==
  [p EXCEPT !.GraphContentChecksum = {}, !.GraphExecutionChecksum = {}]

\* Policy.UpdateChecksums: a checksum that is set is kept, the local ones are
\* computed when one of them is empty, then the graph ones likewise
UpdatedChecksums(p) ==
  LET doLocal == p.LocalContentChecksum = {} \/ p.LocalExecutionChecksum = {}
      p1 == IF doLocal
            THEN [p EXCEPT !.LocalContentChecksum = {LocalContentOf(p)},
                           !.LocalExecutionChecksum = {LocalExecutionOf(p)},
                           !.at = FieldsOf(p)]
            ELSE p
      doGraph == p1.GraphContentChecksum = {} \/ p1.GraphExecutionChecksum = {}
  IN IF doGraph
     THEN [p1 EXCEPT !.GraphContentChecksum = {GraphContentOf(p1.LocalContentChecksum)},
                     !.GraphExecutionChecksum = {GraphExecutionOf(p1.LocalExecutionChecksum)}]
     ELSE p1

\* what a call without a result leaves
NoResult == [op |-> "none"]

chkframe == <<dbvars, rcache, pc, cur, dirty, assigned, served, stale, storevars,
              propsw, bundle, scan, conc>>

\* a policy is built (TestPolicyChecksums: the bundle's policy and assetPolicy)
NewPolicy ==
  /\ \E mrn \in {"mrn1", "asset1"} : pol' = NewPolicyObject(mrn)
  /\ ret' = NoResult
  /\ UNCHANGED chkframe

\* a documentation field is changed
ChangeContent ==
  /\ pol.changes < MaxChanges
  /\ \E f \in DocFields :
       /\ pol[f] # NewValue(f)
       /\ pol' = [pol EXCEPT ![f] = NewValue(f), !.changes = @ + 1]
       /\ ret' = NoResult
  /\ UNCHANGED chkframe

\* the MRN, the CodeId of the query or the scoring of the check is changed
ChangeExecution ==
  /\ pol.changes < MaxChanges
  /\ \/ \E f \in ExecFields \ {"Mrn"} :
          /\ pol[f] # NewValue(f)
          /\ pol' = [pol EXCEPT ![f] = NewValue(f), !.changes = @ + 1]
     \/ \E c \in MrnChanges :
          /\ pol.Mrn = c[1]
          /\ pol' = [pol EXCEPT !.Mrn = c[2], !.changes = @ + 1]
  /\ ret' = NoResult
  /\ UNCHANGED chkframe

InvalidateLocalChecksums ==
  /\ pol' = InvalidatedLocal(pol)
  /\ ret' = NoResult
  /\ UNCHANGED chkframe

InvalidateGraphChecksums ==
  /\ pol' = InvalidatedGraph(pol)
  /\ ret' = NoResult
  /\ UNCHANGED chkframe

\* UpdateChecksums; the call records the checksums it leaves, the checksums
\* the call before it left, and the fields that differ from those hashed into
\* the local checksums before
UpdateChecksums ==
  /\ LET p == UpdatedChecksums(pol)
     IN /\ pol' = [p EXCEPT !.last = {ChecksumsOf(p)}]
        /\ ret' = [op |-> "UpdateChecksums",
                   local   |-> pol.LocalContentChecksum = {} \/ pol.LocalExecutionChecksum = {},
                   changed |-> {f \in DocFields \cup ExecFields : pol[f] # pol.at[f]},
                   asset   |-> pol.at.Mrn \in AssetMrns,
                   before  |-> pol.last]
  /\ UNCHANGED chkframe

NextChecksums ==
  \/ NewPolicy \/ ChangeContent \/ ChangeExecution
  \/ InvalidateLocalChecksums \/ InvalidateGraphChecksums \/ UpdateChecksums
SpecChecksums == Init /\ [][NextChecksums]_vars

\* ------------------------------------------ properties of the checksums
\* the checksums of the policy that differ from those the call before left
Differing ==
  {k \in {"LocalContent", "LocalExecution", "GraphContent", "GraphExecution"} :
     \A b \in ret.before : ChecksumsOf(pol)[k] # b[k]}

\* an UpdateChecksums that followed InvalidateLocalChecksums has returned, and
\* an earlier call had computed the checksums
Recomputed ==
  /\ ret.op = "UpdateChecksums" /\ ret.local /\ ret.before # {}
  /\ \A b \in ret.before : \A k \in DOMAIN b : b[k] # {}

\* C27: after a change of documentation fields only (authors, tags, name,
\* version, a group's created timestamp), InvalidateLocalChecksums and
\* UpdateChecksums, the local and graph content checksums differ from the
\* ones before and the two execution checksums are the same; on an untouched
\* policy all four are the same.
ContentOnlyMutation ==
  Recomputed =>
    /\ (ret.changed # {} /\ ret.changed \subseteq DocFields)
          => Differing = {"LocalContent", "GraphContent"}
    /\ ret.changed = {} => Differing = {}

ContentOnlyMutationWitness ==
  /\ Recomputed /\ ret.changed = {"Name", "Created"}
  /\ Differing = {"LocalContent", "GraphContent"}

\* C28 as claimed: after a change of the MRN, of the CodeID of a query or of
\* the scoring of a check, InvalidateLocalChecksums and UpdateChecksums, all
\* four checksums differ from the ones before.
ExecutionMutationAsClaimed ==
  (Recomputed /\ ret.changed \cap ExecFields # {})
     => Differing = {"LocalContent", "LocalExecution", "GraphContent", "GraphExecution"}

\* C28, amended: the same, for the MRN of a policy that is not an asset
\* policy.
ExecutionMutation ==
  (Recomputed /\ ret.changed \cap ExecFields # {}
              /\ ("Mrn" \in ret.changed => ~ret.asset))
     => Differing = {"LocalContent", "LocalExecution", "GraphContent", "GraphExecution"}

ExecutionMutationWitness ==
  /\ Recomputed /\ ret.changed = {"Mrn"} /\ ~ret.asset
  /\ Differing = {"LocalContent", "LocalExecution", "GraphContent", "GraphExecution"}

\* ------------------------------------------------------------------ scan
\* LocalService.RunIncognito and distributeJob over the assets 1..n of the
\* inventory, RunAssetJob over the connections 1..conns of one asset.  The
\* reporter keeps the assets of the reports and of the scan errors added.
MaxAssets == 2         \* most assets of an inventory
MaxConns  == 2         \* most connections of an asset

\* what a job is rejected for before the loop: by RunIncognito, and by
\* distributeJob when the inventory cannot be loaded or resolved or is empty
JobErrors == {"missing scan job", "missing inventory", "no context provided",
              "could not load asset information", "failed to resolve multiple assets",
              "could not find an asset that we can connect to"}
\* reporter.Error(): nil when no scan error was added
ScanErrors == "scan errors"
ReporterError(s) == IF s.errors = <<>> THEN "" ELSE ScanErrors

\* mutant of Done: the context is never found cancelled
Done_Never(s) == FALSE

\* case <-ctx.Done(): whether the context of the scan is cancelled
Done(s) == s.cancelled

scanframe == <<dbvars, rcache, pc, cur, dirty, assigned, served, stale, storevars,
               propsw, bundle, pol, conc>>

\* RunIncognito up to the loop of distributeJob
RunIncognito ==
  /\ scan.pc = "idle"
  /\ \/ \E e \in JobErrors :
          /\ scan' = InitScan
          /\ ret' = [op |-> "RunIncognito", reports |-> {}, err |-> e]
     \/ \E n \in 1..MaxAssets :
          /\ scan' = [InitScan EXCEPT !.pc = "loop", !.n = n, !.i = 1]
          /\ ret' = NoResult
  /\ UNCHANGED scanframe

\* the context of the running scan is cancelled
Cancel ==
  /\ scan.pc \in {"loop", "open", "conn", "close"}
  /\ ~scan.cancelled
  /\ scan' = [scan EXCEPT !.cancelled = TRUE, !.cancelledAt = scan.pc]
  /\ UNCHANGED <<ret, scanframe>>

\* distributeJob returns to RunIncognito, which drops the completed flag and
\* returns the reports only when the error of the reporter is nil
Returned(s, completed) ==
  [s EXCEPT !.pc = "idle",
            !.result = {[reports |-> s.reports, completed |-> completed, err |-> ReporterError(s)]}]

\* distributeJob, the head of the loop over the assets: the end of the list,
\* the check of the context, or the start of RunAssetJob for asset i
LoopHead ==
  /\ scan.pc = "loop"
  /\ IF scan.i > scan.n \/ Done(scan)
     THEN /\ scan' = Returned(scan, scan.i > scan.n)
          /\ ret' = [op |-> "RunIncognito",
                     reports |-> IF ReporterError(scan) = "" THEN {scan.reports} ELSE {},
                     err |-> ReporterError(scan)]
     ELSE /\ scan' = [scan EXCEPT !.pc = "open", !.started = @ + 1]
          /\ ret' = ret
  /\ UNCHANGED scanframe

\* the asset job is over: the loop goes to the next asset
JobDone(s) == [s EXCEPT !.pc = "loop", !.i = @ + 1, !.finished = @ + 1]

\* RunAssetJob, resolver.OpenAssetConnections: an error, which is added to
\* the reporter, or the connections of the asset
OpenAssetConnections ==
  /\ scan.pc = "open"
  /\ \/ scan' = JobDone([scan EXCEPT !.errors = Append(@, scan.i), !.conns = 0, !.closed = <<>>])
     \/ scan' = JobDone([scan EXCEPT !.conns = 0, !.closed = <<>>])
     \/ \E k \in 1..MaxConns :
          scan' = [scan EXCEPT !.pc = "conn", !.conns = k, !.c = 1, !.closed = <<>>]
  /\ UNCHANGED <<ret, scanframe>>

\* RunAssetJob, the block of connection c: RunMotorizedAsset returns a report
\* or an error, or panics
RunMotorizedAsset ==
  /\ scan.pc = "conn"
  /\ \E o \in {"report", "error", "panic"} :
       scan' = [scan EXCEPT !.pc = "close", !.outcome = o,
                            !.reports = IF o = "report" THEN Append(@, scan.i) ELSE @,
                            !.errors  = IF o = "error" THEN Append(@, scan.i) ELSE @]
  /\ UNCHANGED <<ret, scanframe>>

\* RunAssetJob, defer m.Close() of connection c; then the next connection,
\* the end of the job, or the panic of the runner goes on
Close ==
  /\ scan.pc = "close"
  /\ LET s == [scan EXCEPT !.closed = Append(@, scan.c)]
     IN scan' = IF scan.outcome = "panic" THEN [s EXCEPT !.pc = "panic"]
                ELSE IF scan.c < scan.conns THEN [s EXCEPT !.pc = "conn", !.c = @ + 1]
                ELSE JobDone(s)
  /\ UNCHANGED <<ret, scanframe>>

NextScan == RunIncognito \/ Cancel \/ LoopHead \/ OpenAssetConnections \/ RunMotorizedAsset \/ Close
SpecScan == Init /\ [][NextScan]_vars

\* ------------------------------------------------ properties of the scan
\* the loop of distributeJob has found the context cancelled and returned
StoppedByCancel ==
  /\ scan.pc = "idle" /\ ret.op = "RunIncognito"
  /\ \E r \in scan.result : ~r.completed

CancellationIsDistinct ==
  StoppedByCancel => ret.err \notin {"", ScanErrors} \cup JobErrors

\* the connections 1..k in the order of the loop
Upto(k) == [j \in 1..k |-> j]

\* C31: the connections of an asset are worked on one after the other, each
\* closed once before the next one starts, and when RunAssetJob is over, by
\* its return or by the failure of the runner, every connection that was
\* opened for the asset has been closed exactly once.
ScopedRelease ==
  /\ scan.pc \in {"conn", "close"} => scan.closed = Upto(scan.c - 1)
  /\ scan.pc \in {"loop", "idle", "panic"} => scan.closed = Upto(scan.conns)

\* the part of C31 that holds: every connection whose block was entered is
\* closed exactly once, in the order of the loop, before the next block
ClosedInTurn ==
  /\ scan.pc \in {"conn", "close"} => scan.closed = Upto(scan.c - 1)
  /\ scan.pc \in {"loop", "idle"} => scan.closed = Upto(scan.conns)
  /\ scan.pc = "panic" => scan.closed = Upto(scan.c)

\* ------------------------- properties of refreshDependentAssetFilters
\* a MutatePolicy, Assign or Unassign call during which the cache refuses no
\* write
AcceptedCall ==
  /\ pc = "idle"
  /\ ~dirty
  /\ \/ \E T \in Targets, deltas \in DeltaMaps : \E ord \in Orders(DOMAIN deltas) :
          Mutate("MutatePolicy", T, deltas, FALSE, ord, FALSE)
     \/ \E a \in Assets, S \in AssignLists \ {{}} : \E ord \in Orders(S) :
          \/ Mutate("Assign", a, [k \in S |-> ADD], TRUE, ord, FALSE)
          \/ Mutate("Unassign", a, [k \in S |-> DELETE], TRUE, ord, FALSE)

\* the datalake under calls whose writes are accepted; the loop over
\* needsUpdate goes on while an iteration is pending
NextRefresh == AcceptedCall \/ Propagation
SpecRefresh == Init /\ [][NextRefresh]_vars /\ WF_vars(Propagation)

\* C33: the parents of the policies never form a cycle, and a call of
\* refreshDependentAssetFilters that has ancestors pending returns.
RefreshTerminates == (pc = "refresh") ~> (pc = "idle")

\* a call has returned after it refreshed an ancestor and the ancestor's parent
RefreshTerminatesWitness ==
  /\ pc = "idle" /\ ret.op = "MutatePolicy" /\ ret.status = "ok"
  /\ "A" \in ret.handled /\ "as1" \in ret.handled

\* C34: no call of refreshDependentAssetFilters handles an ancestor more than
\* once.
EnqueuedOnce ==
  /\ pc = "refresh" => cur.r.again = {}
  /\ ret.op \in {"MutatePolicy", "Assign", "Unassign"} => ret.again = {}

\* ------------------------------------ properties of the root reporting job
\* the resolved policies a Resolve has built: those cached and the one the
\* last call returned
BuiltPolicies ==
  rcache \cup {ret.rp : x \in {y \in {1} : ret.op = "Resolve" /\ ret.status = "ok"}}

\* the reporting job rp.ReportingJobUuid refers to is in the collector job,
\* has QrId "root" and no datapoints
RootJobOf(rp) ==
  /\ rp.ReportingJobUuid \in DOMAIN rp.CollectorJob.ReportingJobs
  /\ LET job == rp.CollectorJob.ReportingJobs[rp.ReportingJobUuid]
     IN job.QrId = "root" /\ job.Datapoints = {} /\ job.Uuid = rp.ReportingJobUuid

\* C35 as claimed: the root reporting job of every resolved policy has QrId
\* "root" and no datapoints, is the job ReportingJobUuid refers to, and its
\* Uuid is the hash of the graph execution checksum, the filters checksum
\* and "root".
RootJobAsClaimed ==
  \A rp \in BuiltPolicies :
     /\ RootJobOf(rp)
     /\ rp.ReportingJobUuid = <<rp.GraphExecutionChecksum, rp.FiltersChecksum, "root">>

\* C35, amended: the same with the Uuid the hash of the graph execution
\* checksum, the filters checksum, "v2" and the graph execution checksum
\* again; two resolved policies with the same pair of checksums have the
\* same root job.
RootJobRule ==
  \A rp \in BuiltPolicies :
     /\ RootJobOf(rp)
     /\ rp.ReportingJobUuid = <<rp.GraphExecutionChecksum, rp.FiltersChecksum, "v2",
                                rp.GraphExecutionChecksum>>
     /\ \A rp2 \in BuiltPolicies :
          (rp2.GraphExecutionChecksum = rp.GraphExecutionChecksum
             /\ rp2.FiltersChecksum = rp.FiltersChecksum)
          => rp2.CollectorJob.ReportingJobs[rp2.ReportingJobUuid]
               = rp.CollectorJob.ReportingJobs[rp.ReportingJobUuid]

\* a Resolve has built a plan for a non-empty set of matching filters and
\* cached it, and the plan names its root reporting job
RootJobRuleWitness ==
  /\ pc = "idle" /\ ret.op = "Resolve" /\ ret.status = "ok" /\ ret.built
  /\ ret.rp \in rcache
  /\ ret.rp.Filters # {}
  /\ ret.rp.ReportingJobUuid \in DOMAIN ret.rp.CollectorJob.ReportingJobs

\* ------------------------------- properties of the group list and the edges
\* C36: in every state, also after a MutatePolicy call that returned an
\* error part-way through its deltas, the MRNs of the first group's policy
\* list of every stored policy are its children, and a policy has a stored
\* policy as parent only if that policy's group lists it.
GroupMatchesEdges ==
  \A T \in stored :
     /\ groups[T] > 0 => group[T] = children[T]
     /\ \A k \in stored : T \in parents[k] => k \in group[T]

\* the same in the states no failed call has left behind; holds
GroupMatchesEdgesAfterSuccess ==
  ~dirty => \A T \in stored :
     /\ groups[T] > 0 => group[T] = children[T]
     /\ \A k \in stored : T \in parents[k] => k \in group[T]

\* ------------------------------------ properties of GetReport's dereference
\* C37: whenever a score is stored for the asset, the asset's wrapper is
\* stored and holds a resolved policy, and GetReport never fails by
\* dereferencing an absent resolved policy.
ResolvedPolicyPresent ==
  /\ \A a \in Assets, q \in QrIds :
       scores[q] # {} => a \in assets /\ assetw[a].ResolvedPolicy # {}
  /\ ret.op = "GetReport" => ret.report.status # "panic"

\* the part that holds: a report that was assembled was read from a stored
\* asset with a resolved policy
AssembledFromResolvedPolicy ==
  (ret.op = "GetReport" /\ ret.report.status = "ok" /\ ret.report.Score # {})
     => \A a \in Assets : ret.report.EntityMrn = a
           => a \in assets /\ assetw[a].ResolvedPolicy # {}

\* ------------------------------------- properties of the validated bundle
\* C38: a step of ValidatePolicy leaves the key sets of the bundle's
\* Policies and Queries maps as they were, and every entry of the two maps
\* is a policy or a query, none is nil.
ValidationKeepsBundle ==
  [][(pc = "validate" \/ pc' = "validate")
       => /\ DOMAIN bundle'.Policies = DOMAIN bundle.Policies
          /\ DOMAIN bundle'.Queries = DOMAIN bundle.Queries
          /\ \A k \in DOMAIN bundle'.Policies : bundle'.Policies[k] # {}
          /\ \A k \in DOMAIN bundle'.Queries : bundle'.Queries[k] # {}]_vars

\* the same of a bundle map without a Library; holds
ValidationKeepsBundleWithoutLibrary ==
  [][((pc = "validate" \/ pc' = "validate") /\ ~bundle.Library.present)
       => bundle' = bundle]_vars

\* ------------------------------------------- concurrent UpdateScores calls
\* Two callers run Db.UpdateScores for the asset with one score for the
\* same QrId each.  A step of a caller is what it does up to and including
\* its next cache.Get or cache.Set; the steps of the two interleave freely.
ConcurrentScores == {NewScore(Result, v, 100) : v \in {50, 100}} \cup {NewScore(Result, 0, 0)}

scoreframe == <<dbvars, rcache, pc, cur, ret, dirty, assigned, served, stale,
                assetw, data, hist, propsw, bundle, pol, scan>>

\* a call of UpdateScores that ran alone before the two callers call
SequentialUpdate ==
  /\ conc = InitConc
  /\ scores[ScoredQrId] = {}
  /\ \E score \in ConcurrentScores :
       scores' = [scores EXCEPT ![ScoredQrId] = updateScore(@, score, now, TRUE).slot]
  /\ UNCHANGED <<scoreframe, now, conc>>

\* time passes
Elapse ==
  /\ now < MaxTime
  /\ now' = now + 1
  /\ UNCHANGED <<scoreframe, scores, conc>>

\* Db.UpdateScores is called by p: the time is read once, before the loop
CallUpdateScores(p) ==
  /\ conc.call[p].pc = "idle"
  /\ \E score \in ConcurrentScores :
       conc' = [conc EXCEPT !.call[p] = [pc |-> "get", op |-> "UpdateScores", score |-> score,
                                         now |-> now, org |-> {}, ok |-> FALSE, err |-> ""],
                            !.before = IF @ = <<>> THEN <<scores[ScoredQrId]>> ELSE @]
  /\ UNCHANGED <<scoreframe, scores, now>>

\* updateScore of p up to its return or its cache.Set: GetScore, the
\* comparison, and the timestamps, which are computed from the score read
ReadScore(p) ==
  /\ conc.call[p].pc = "get"
  /\ LET c == conc.call[p]
         r == updateScore(scores[ScoredQrId], c.score, c.now, TRUE)
     IN conc' = IF ~r.ok
                THEN [conc EXCEPT !.call[p].pc = "done"]
                ELSE [conc EXCEPT !.call[p].pc = "set", !.call[p].org = scores[ScoredQrId]]
  /\ UNCHANGED <<scoreframe, scores, now>>

\* updateScore of p from its cache.Set on: the score is stored with the
\* timestamps computed from the score p read
WriteScore(p) ==
  /\ conc.call[p].pc = "set"
  /\ \E accepted \in BOOLEAN :
       LET c == conc.call[p]
           r == updateScore(c.org, c.score, c.now, accepted)
       IN /\ scores' = [scores EXCEPT ![ScoredQrId] = IF accepted THEN r.slot ELSE @]
          /\ conc' = [conc EXCEPT !.call[p].pc = "done", !.call[p].ok = r.ok,
                                   !.call[p].err = r.err]
  /\ UNCHANGED <<scoreframe, now>>

CallScores  == \E p \in Procs : CallUpdateScores(p)
ReadScores  == \E p \in Procs : ReadScore(p)
WriteScores == \E p \in Procs : WriteScore(p)

NextConcurrentScores == SequentialUpdate \/ Elapse \/ CallScores \/ ReadScores \/ WriteScores

SpecConcurrentScores == Init /\ [][NextConcurrentScores]_vars

\* the entry after the call a and then the call b ran alone on the entry s
InSequence(s, a, b) ==
  updateScore(updateScore(s, a.score, a.now, TRUE).slot, b.score, b.now, TRUE).slot

\* C32: when two UpdateScores calls for the same asset and QrId, whose steps
\* interleaved at the cache reads and writes, have both returned without
\* error, the stored score with its ValueModifiedTime and FailureTime is the
\* one that running the two calls one after the other, in one of the two
\* orders, leaves.
ScoreUpdatesSerialized ==
  (\A p \in Procs : conc.call[p].pc = "done" /\ conc.call[p].op = "UpdateScores"
                      /\ conc.call[p].err = "")
    => scores[ScoredQrId] \in {InSequence(conc.before[1], conc.call[1], conc.call[2]),
                               InSequence(conc.before[1], conc.call[2], conc.call[1])}

\* what holds: the stored score is the one a call gave, and its timestamps
\* are those of that call run alone on the entry it read
ScoreOfOneCall ==
  (\A p \in Procs : conc.call[p].pc = "done" /\ conc.call[p].op = "UpdateScores"
                      /\ conc.call[p].err = "")
    => \E p \in Procs : \A x \in scores[ScoredQrId] : SameScore(x, conc.call[p].score)

\* ------------------------------------------- concurrent MutatePolicy calls
\* Two callers run Db.MutatePolicy with one ADD delta each.  A step of a
\* caller ends with a cache.Get or a cache.Set; the look-ups inside
\* refreshAssetFilters and UpdateChecksums are taken together with the write
\* that follows them.  What a caller reads from and writes to the policy, its
\* group and the children and parents maps goes to the objects every copy of
\* the wrapper shares.
\* the calls: target and child.  The targets have no parents, so that
\* refreshDependentAssetFilters has nothing to refresh
ConcurrentDeltas == {<<"A", "B">>, <<"A", "C">>, <<"B", "C">>}

\* the two calls add to the same target or add the same child
SameTargetOrChild(x, y) == x[1] = y[1] \/ x[2] = y[2]

mutateframe == <<stored, assets, groups, rcache, pc, cur, ret, dirty, assigned, served, stale,
                 storevars, propsw, bundle, pol, scan>>

\* Db.MutatePolicy is called by p
CallMutatePolicy(p) ==
  /\ conc.call[p].pc = "idle"
  /\ \E x \in ConcurrentDeltas :
       /\ parents[x[1]] = {}
       /\ \A o \in Procs : conc.call[o].op = "MutatePolicy"
                              => SameTargetOrChild(x, <<conc.call[o].T, conc.call[o].k>>)
       /\ conc' = [conc EXCEPT !.call[p] = [pc |-> "ensure", op |-> "MutatePolicy",
                                            T |-> x[1], k |-> x[2], pol |-> {},
                                            status |-> "", err |-> ""]]
  /\ UNCHANGED <<dbvars, mutateframe>>

\* ensurePolicy gets the target; the local map `policies` is filled from
\* the group's policy list, and an ADD of a policy in it is skipped
EnsureTarget(p) ==
  /\ conc.call[p].pc = "ensure"
  /\ LET c == conc.call[p]
     IN conc' = IF c.k \in group[c.T]
                THEN [conc EXCEPT !.call[p].pc = "done", !.call[p].pol = group[c.T],
                                  !.call[p].status = "ok"]
                ELSE [conc EXCEPT !.call[p].pc = "child", !.call[p].pol = group[c.T]]
  /\ UNCHANGED <<dbvars, mutateframe>>

\* case ADD up to the write of the child: the child is read, and the edge is
\* put into the local map and into the children and parents maps
GetChild(p) ==
  /\ conc.call[p].pc = "child"
  /\ LET c == conc.call[p]
     IN /\ c.k \in stored
        /\ children' = [children EXCEPT ![c.T] = @ \cup {c.k}]
        /\ parents' = [parents EXCEPT ![c.k] = @ \cup {c.T}]
        /\ conc' = [conc EXCEPT !.call[p].pc = "setchild", !.call[p].pol = @ \cup {c.k}]
  /\ UNCHANGED <<stored, assets, groups, group, filters, lec, gec, invalidated, mutateframe>>

\* the group's policy list is rebuilt from the local map `policies`
TranslateBack(T, policies) == [group EXCEPT ![T] = policies]

\* the child is written; after the loop the group's policy list is rebuilt
SetChild(p) ==
  /\ conc.call[p].pc = "setchild"
  /\ LET c == conc.call[p]
     IN \/ /\ group' = TranslateBack(c.T, c.pol)
           /\ conc' = [conc EXCEPT !.call[p].pc = "filters"]
        \/ /\ conc' = [conc EXCEPT !.call[p].pc = "done", !.call[p].status = "error",
                                    !.call[p].err = "child_write"]
           /\ UNCHANGED group
  /\ UNCHANGED <<stored, assets, groups, children, parents, filters, lec, gec, invalidated,
                 mutateframe>>

\* refreshAssetFilters with its write of the target
RefreshFilters(p) ==
  /\ conc.call[p].pc = "filters"
  /\ LET c == conc.call[p]
     IN /\ filters' = [filters EXCEPT ![c.T] = refreshAssetFilters(c.T, group[c.T], filters)]
        /\ \/ conc' = [conc EXCEPT !.call[p].pc = "target"]
           \/ conc' = [conc EXCEPT !.call[p].pc = "done", !.call[p].status = "error",
                                   !.call[p].err = "filters_write"]
  /\ UNCHANGED <<stored, assets, groups, group, children, parents, lec, gec, invalidated,
                 mutateframe>>

\* the checksums, the write of the target, checkAndInvalidatePolicyBundle
\* and refreshDependentAssetFilters, which finds no parents
SetTarget(p) ==
  /\ conc.call[p].pc = "target"
  /\ LET c == conc.call[p]
         l == LocalExecutionChecksum(c.T, group[c.T])
     IN /\ lec' = [lec EXCEPT ![c.T] = l]
        /\ gec' = [gec EXCEPT ![c.T] = GraphExecutionChecksum(l, group[c.T], filters[c.T], gec)]
        /\ \/ /\ invalidated' = checkAndInvalidatePolicyBundle(invalidated, c.T)
              /\ conc' = [conc EXCEPT !.call[p].pc = "done", !.call[p].status = "ok"]
           \/ /\ conc' = [conc EXCEPT !.call[p].pc = "done", !.call[p].status = "error",
                                       !.call[p].err = "target_write"]
              /\ UNCHANGED invalidated
  /\ UNCHANGED <<stored, assets, groups, group, children, parents, filters, mutateframe>>

\* a caller that has returned calls again
CallAgain(p) ==
  /\ conc.call[p].pc = "done"
  /\ conc.call[p].op = "MutatePolicy"
  /\ conc' = [conc EXCEPT !.call[p] = IdleProc]
  /\ UNCHANGED <<dbvars, mutateframe>>

CallMutations == \E p \in Procs : CallMutatePolicy(p)
EnsureTargets == \E p \in Procs : EnsureTarget(p)
GetChildren   == \E p \in Procs : GetChild(p)
SetChildren   == \E p \in Procs : SetChild(p)
RefreshAll    == \E p \in Procs : RefreshFilters(p)
SetTargets    == \E p \in Procs : SetTarget(p)
CallsAgain    == \E p \in Procs : CallAgain(p)

NextConcurrentMutate ==
  CallMutations \/ EnsureTargets \/ GetChildren \/ SetChildren \/ RefreshAll \/ SetTargets
    \/ CallsAgain

SpecConcurrentMutate == Init /\ [][NextConcurrentMutate]_vars

\* both callers have returned from MutatePolicy without error
BothSucceeded ==
  \A p \in Procs : /\ conc.call[p].op = "MutatePolicy"
                    /\ conc.call[p].pc = "done" /\ conc.call[p].status = "ok"

\* C39: after two concurrent MutatePolicy calls that add two children to one
\* target, or one child to two targets, have both returned success, the
\* child of each call is in its target's children, the target is in the
\* child's parents, and the child is in the target's group policy list.
EdgesNotLost ==
  BothSucceeded =>
    \A p \in Procs :
       LET c == conc.call[p]
       IN /\ c.k \in children[c.T]
          /\ c.T \in parents[c.k]
          /\ c.k \in group[c.T]

\* what holds: the edges are on both ends
EdgesOnBothEnds ==
  BothSucceeded =>
    \A p \in Procs :
       LET c == conc.call[p]
       IN c.k \in children[c.T] /\ c.T \in parents[c.k]

====
